---- MODULE Spec2Model ----
(***************************************************************************)
(* A model of the mt-trie Merkle Patricia Trie: the in-memory trie         *)
(* (trie.go), the node codec and committer (trie_committer.go), the node   *)
(* sets (trie_nodeset.go), the dirty-node cache TrieDB (trie_db.go), its   *)
(* cleaner (trie_db_cleaner.go) and the memory store with its batch        *)
(* (accdb/memorydb/memorydb.go).                                           *)
(*                                                                         *)
(* Byte strings are modelled by their content and their length:            *)
(*   [k |-> <<b1, ..., bn>>]   a string given byte by byte (compact keys)  *)
(*   [v |-> id, n |-> len]     a user value: its identity and its length   *)
(*   [pre |-> blob]            the 32-byte keccak digest of blob           *)
(*   [z |-> 0]                 the 32-byte all-zero hash                   *)
(* A serialized node is the RLP item tree ([str |-> bytes] or              *)
(* [list |-> <<items>>]); its length in bytes is computed by the RLP rules.*)
(***************************************************************************)
EXTENDS Integers, Sequences, FiniteSets, TLC

\* ------------------------------------------------------------------ bounds
\* Length in bytes of the short user value (its leaf is embedded in its parent).
SmallLen == 4
\* Length in bytes of the long user value (two such leaves fill a batch).
BigLen == 70000
\* Length in bytes of a serialized account record (nonce, balance, storage
\* root, code hash).
AccountLen == 70
\* Trie mutations (Update/Delete) over the whole run.
MaxOps == 2
\* Trie writes in a run of the in-memory trie alone.
MaxTrieOps == 4
\* Trie.Commit calls over the whole run.
MaxGen == 2
\* Trie mutations in a run over a store that loses or garbles nodes.
MaxStoreOps == 3
\* Trie mutations in a run that merges the NodeSets of several tries.
MaxMergeOps == 3
\* Trie mutations in a run of tries that share nodes.
MaxShareOps == 4

\* ------------------------------------------------------------ byte strings
EmptyBytes == [k |-> <<>>]
ZeroHash == [z |-> 0]
Keccak(blob) == [pre |-> blob]
NoBlob == [none |-> 0]

IsHash(b) == "pre" \in DOMAIN b \/ "z" \in DOMAIN b

BLen(b) ==
    IF "none" \in DOMAIN b THEN 0
    ELSE IF IsHash(b) THEN 32
    ELSE IF "k" \in DOMAIN b THEN Len(b.k)
    ELSE b.n

FirstByte(b) == IF "k" \in DOMAIN b THEN b.k[1] ELSE IF "v" \in DOMAIN b THEN b.v ELSE 255

Take(s, m) == SubSeq(s, 1, m)
\* A slice that drops nothing.
Drop_none(s, m) == s
Drop(s, m) == SubSeq(s, m + 1, Len(s))

\* A local variable: the value v, computed once, under the name F gives it.
With(v, F(_)) == F(v)

\* ------------------------------------------------------------ nibble codec
RECURSIVE keybytesToHex(_)
keybytesToHex(str) ==
    IF Len(str) = 0 THEN <<16>>
    ELSE <<str[1] \div 16, str[1] % 16>> \o keybytesToHex(Tail(str))

hasTerm(s) == Len(s) > 0 /\ s[Len(s)] = 16

RECURSIVE decodeNibbles(_)
decodeNibbles(nibbles) ==
    IF Len(nibbles) < 2 THEN <<>>
    ELSE <<nibbles[1] * 16 + nibbles[2]>> \o decodeNibbles(Drop(nibbles, 2))

hexToCompact(hex) ==
    With(IF hasTerm(hex) THEN 1 ELSE 0, LAMBDA terminator :
    With(IF hasTerm(hex) THEN Take(hex, Len(hex) - 1) ELSE hex, LAMBDA h :
        IF Len(h) % 2 = 1
        THEN <<terminator * 32 + 16 + h[1]>> \o decodeNibbles(Tail(h))
        ELSE <<terminator * 32>> \o decodeNibbles(h)))

compactToHex(compact) ==
    IF Len(compact) = 0 THEN compact
    ELSE With(keybytesToHex(compact), LAMBDA base0 :
         With(IF base0[1] < 2 THEN Take(base0, Len(base0) - 1) ELSE base0, LAMBDA base :
             Drop(base, 2 - (base[1] % 2))))

RECURSIVE prefixLen(_, _)
prefixLen(a, b) ==
    IF Len(a) = 0 \/ Len(b) = 0 \/ a[1] # b[1] THEN 0
    ELSE 1 + prefixLen(Tail(a), Tail(b))

\* ------------------------------------------------------------- node model
Nil == [t |-> "nil"]
valueNode(b) == [t |-> "value", b |-> b]
hashNode(h) == [t |-> "hash", h |-> h]
shortNode(key, val, flags) == [t |-> "short", Key |-> key, Val |-> val, flags |-> flags]
fullNode(children, flags) == [t |-> "full", Children |-> children, flags |-> flags]

nodeFlag(hash, dirty) == [hash |-> hash, dirty |-> dirty]
\* A flag that says a new node is clean.
newFlag_clean == nodeFlag(Nil, FALSE)
\* Trie.newFlag: the flag of a node made by insert or delete.
newFlag == nodeFlag(Nil, TRUE)
NoChildren == [i \in 0..16 |-> Nil]

\* node.cache(): the cached hash and the dirty bit.
cache(n) ==
    IF n.t \in {"short", "full"} THEN <<n.flags.hash, n.flags.dirty>>
    ELSE <<Nil, TRUE>>

\* ------------------------------------------------------------------- RLP
RStr(b) == [str |-> b]
RList(items) == [list |-> items]
IsList(it) == "list" \in DOMAIN it

IntSize(n) == IF n < 256 THEN 1 ELSE IF n < 65536 THEN 2 ELSE IF n < 16777216 THEN 3 ELSE 4

StrSize(b) ==
    With(BLen(b), LAMBDA n :
        IF n = 1 /\ FirstByte(b) < 128 THEN 1
        ELSE IF n < 56 THEN 1 + n
        ELSE 1 + IntSize(n) + n)

RECURSIVE ItemSize(_)
RECURSIVE SumSizes(_)
SumSizes(items) ==
    IF Len(items) = 0 THEN 0 ELSE ItemSize(items[1]) + SumSizes(Tail(items))
ItemSize(it) ==
    IF "none" \in DOMAIN it THEN 0
    ELSE IF IsList(it)
    THEN With(SumSizes(it.list), LAMBDA p : IF p < 56 THEN 1 + p ELSE 1 + IntSize(p) + p)
    ELSE StrSize(it.str)

\* node.encode: the serialization of a collapsed node.
RECURSIVE encode(_)
encode(n) ==
    CASE n.t = "short" -> RList(<<RStr([k |-> n.Key]), encode(n.Val)>>)
      [] n.t = "full"  -> RList([i \in 1..17 |-> encode(n.Children[i - 1])])
      [] n.t = "hash"  -> RStr(n.h)
      [] n.t = "value" -> RStr(n.b)
      [] OTHER         -> RStr(EmptyBytes)

\* -------------------------------------------------------------- node decode
DecodeError == [t |-> "error"]
IsErr(n) == n.t = "error"
hashLen == 32

RECURSIVE decodeNode(_, _)

\* decodeRef: a child reference is an embedded list, the empty string or a hash.
decodeRef(it) ==
    IF IsList(it)
    THEN IF ItemSize(it) > hashLen THEN DecodeError ELSE decodeNode(Nil, it)
    ELSE IF BLen(it.str) = 0 THEN Nil
    ELSE IF BLen(it.str) = 32 THEN hashNode(it.str)
    ELSE DecodeError

decodeShort(hash, elems) ==
    IF IsList(elems[1]) \/ ~("k" \in DOMAIN elems[1].str) THEN DecodeError
    ELSE With(compactToHex(elems[1].str.k), LAMBDA key :
             IF hasTerm(key)
             THEN IF IsList(elems[2]) THEN DecodeError
                  ELSE shortNode(key, valueNode(elems[2].str), nodeFlag(hash, FALSE))
             ELSE With(decodeRef(elems[2]), LAMBDA r :
                      IF IsErr(r) THEN DecodeError
                      ELSE shortNode(key, r, nodeFlag(hash, FALSE))))

decodeFull(hash, elems) ==
    With([i \in 0..15 |-> decodeRef(elems[i + 1])], LAMBDA refs :
        IF \E i \in 0..15 : IsErr(refs[i]) THEN DecodeError
        ELSE IF IsList(elems[17]) THEN DecodeError
        ELSE fullNode([i \in 0..16 |->
                          IF i < 16 THEN refs[i]
                          ELSE IF BLen(elems[17].str) > 0 THEN valueNode(elems[17].str)
                          ELSE Nil],
                      nodeFlag(hash, FALSE)))

\* decodeNode / decodeNodeUnsafe: the buffer is copied first, which does not
\* change its content.
decodeNode(hash, buf) ==
    IF ItemSize(buf) = 0 THEN DecodeError
    ELSE IF ~IsList(buf) THEN DecodeError
    ELSE IF Len(buf.list) = 2 THEN decodeShort(hash, buf.list)
    ELSE IF Len(buf.list) = 17 THEN decodeFull(hash, buf.list)
    ELSE DecodeError

\* ------------------------------------------------------------------ hasher
\* hasher.hash(n, force): <<hashed, cached>>. A node whose serialization is
\* shorter than 32 bytes is returned collapsed (to be embedded) unless forced.
RECURSIVE hasher_hash(_, _)
toHash(collapsed, force) ==
    With(encode(collapsed), LAMBDA enc :
        IF ItemSize(enc) < 32 /\ ~force THEN collapsed ELSE hashNode(Keccak(enc)))

withHash(cached, hashed) ==
    [cached EXCEPT !.flags.hash = IF hashed.t = "hash" THEN hashed.h ELSE Nil]

hasher_hash(n, force) ==
    IF cache(n)[1] # Nil THEN <<hashNode(cache(n)[1]), n>>
    ELSE CASE n.t = "short" ->
              With(IF n.Val.t \in {"short", "full"} THEN hasher_hash(n.Val, FALSE)
                   ELSE <<n.Val, n.Val>>, LAMBDA c :
              With(toHash([n EXCEPT !.Key = hexToCompact(n.Key), !.Val = c[1]], force),
                   LAMBDA hashed :
                  <<hashed, withHash([n EXCEPT !.Val = c[2]], hashed)>>))
           [] n.t = "full" ->
              With([i \in 0..16 |->
                       IF i < 16 /\ n.Children[i] # Nil THEN hasher_hash(n.Children[i], FALSE)
                       ELSE <<n.Children[i], n.Children[i]>>], LAMBDA c :
              With(toHash([n EXCEPT !.Children = [i \in 0..16 |-> c[i][1]]], force),
                   LAMBDA hashed :
                  <<hashed, withHash([n EXCEPT !.Children = [i \in 0..16 |-> c[i][2]]], hashed)>>))
           [] OTHER -> <<n, n>>

\* The root hash of the empty trie: keccak of the serialized empty string.
emptyRoot == Keccak(RStr(EmptyBytes))

\* ------------------------------------------------------------------- state
VARIABLES
    root,       \* Trie.root of the trie in use
    trie,       \* "open": a trie is in use; "none": no trie (consumed or not created)
    model,      \* ghost: the key-to-value mapping the trie in use stands for
    last,       \* ghost: the last call made and what it returned
    nOps,       \* ghost: trie mutations so far
    gen,        \* ghost: Trie.Commit calls so far
    pending,    \* what Trie.Commit returned and how far it went: [st, root, nodes, err, clean]
    merged,     \* MergedNodeSet.sets: owner -> NodeSet
    dirties,    \* TrieDB.dirties: hash -> cachedNode
    oldest,     \* TrieDB.oldest
    newest,     \* TrieDB.newest
    disk,       \* MemDB.kv: hash -> blob
    batch,      \* memBatch: [writes, size]
    commit,     \* TrieDB.Commit in progress: [pc, root, stack, err, at] and its ghosts
    reader,     \* a concurrent TrieDB.nodeBlob call: [pc, hash, found, from]
    roots,      \* ghost: root hash -> mapping, for every root Trie.Commit returned
    opened,     \* ghost: the root hash the trie in use was opened from by New and
                \* has only been read since, over a store nobody else has written
                \* to; the zero hash otherwise
    committed,  \* ghost: the root hashes TrieDB.Commit returned nil for
    crashed,    \* a panic was raised
    tracer      \* a trieCapture made by newTracer, and nil before it is made

vars == <<root, trie, model, last, nOps, gen, pending, merged, dirties,
          oldest, newest, disk, batch, commit, reader, roots, opened, committed, crashed,
          tracer>>

\* --------------------------------------------------------- errors, values
NoErr == [e |-> "nil"]
MissingNodeError(h, path, cause) ==
    [e |-> "MissingNodeError", NodeHash |-> h, Path |-> path, err |-> cause]
Panic == [e |-> "panic"]
NotFound == [e |-> "not found"]

NilValue == [v |-> 0, n |-> 0]
SmallValue == [v |-> 1, n |-> SmallLen]
BigValue == [v |-> 2, n |-> BigLen]
Values == {SmallValue, BigValue}
\* The serialized account record whose storage root is h.
AccountValue(h) == [v |-> 3, n |-> AccountLen, acct |-> h]
\* The user keys 0x12, 0x13 and 0x1234 (0x12 is a prefix of 0x1234).
Keys == {<<18>>, <<19>>, <<18, 52>>}
\* The keys of the in-memory runs: two more, one branching at the last nibble
\* below <<18>> and one branching at the root.
TrieKeys == Keys \cup {<<18, 53>>, <<35>>}

\* ----------------------------------------------------------- TrieDB reads
\* cachedNode.rlp(): the serialization of the cached collapsed node.
rlp(entry) == encode(entry.node)

\* memorydb's own error for a key it does not hold.
errMemorydbNotFound == [e |-> "not found", of |-> "memorydb"]

\* memorydb Get: the stored value, or nothing with errMemorydbNotFound.
MemDB_Get(kv, key) ==
    IF key \in DOMAIN kv THEN [value |-> kv[key], err |-> NoErr]
    ELSE [value |-> NoBlob, err |-> errMemorydbNotFound]

\* TrieDB.nodeBlob that never reads the store.
nodeBlobOf_cacheOnly(cached, kv, h) ==
    IF h = ZeroHash \/ h \notin DOMAIN cached THEN [blob |-> NoBlob, err |-> NotFound]
    ELSE [blob |-> rlp(cached[h]), err |-> NoErr]

\* TrieDB.nodeBlob without its test for the zero hash.
nodeBlobOf_noZeroTest(cached, kv, h) ==
    IF h \in DOMAIN cached THEN [blob |-> rlp(cached[h]), err |-> NoErr]
    ELSE With(MemDB_Get(kv, h).value, LAMBDA enc :
             IF ItemSize(enc) = 0 THEN [blob |-> NoBlob, err |-> NotFound]
             ELSE [blob |-> enc, err |-> NoErr])

\* TrieDB.nodeBlob on a given cache and store: the store's error is dropped
\* and a new "not found" error is made for an empty value.
nodeBlobOf(cached, kv, h) ==
    IF h = ZeroHash THEN [blob |-> NoBlob, err |-> NotFound]
    ELSE IF h \in DOMAIN cached THEN [blob |-> rlp(cached[h]), err |-> NoErr]
    ELSE With(MemDB_Get(kv, h).value, LAMBDA enc :
             IF ItemSize(enc) = 0 THEN [blob |-> NoBlob, err |-> NotFound]
             ELSE [blob |-> enc, err |-> NoErr])

DB_nodeBlob(h) == nodeBlobOf(dirties, disk, h)

\* TrieDB.NodeBlob: the error of nodeBlob is dropped.
DB_NodeBlob(h) == [blob |-> DB_nodeBlob(h).blob, err |-> NoErr]

\* expandNode: the cached collapsed node with its keys in hex form and the
\* hash it is cached under in its flags.
RECURSIVE expandNode(_, _)
expandNode(hash, n) ==
    CASE n.t = "short" ->
         shortNode(compactToHex(n.Key), expandNode(Nil, n.Val), nodeFlag(hash, FALSE))
      [] n.t = "full" ->
         fullNode([i \in 0..16 |-> expandNode(Nil, n.Children[i])], nodeFlag(hash, FALSE))
      [] OTHER -> n

\* cachedNode.obj(hash): the decoded node the entry holds.
obj(entry, hash) == expandNode(hash, entry.node)

\* TrieDB.node: the cached entry's node, or the decoded blob of the store; no
\* node when the store has none. There is no test for the zero hash.
DB_node(h) ==
    IF h \in DOMAIN dirties THEN [node |-> obj(dirties[h], h), panic |-> FALSE]
    ELSE With(MemDB_Get(disk, h), LAMBDA g :
             IF g.err # NoErr \/ ItemSize(g.value) = 0 THEN [node |-> Nil, panic |-> FALSE]
             ELSE With(decodeNode(h, g.value), LAMBDA n :
                      IF IsErr(n) THEN [node |-> Nil, panic |-> TRUE]
                      ELSE [node |-> n, panic |-> FALSE]))

\* Trie.nodeBlob handing on whatever the reader returned.
Trie_nodeBlob_unchecked(path, h) == DB_NodeBlob(h)

\* Trie.nodeBlob: a missing-node error when the reader has no blob.
Trie_nodeBlob(path, h) ==
    With(DB_NodeBlob(h), LAMBDA r :
        IF r.err # NoErr \/ ItemSize(r.blob) = 0
        THEN [blob |-> NoBlob, err |-> MissingNodeError(h, path, r.err)]
        ELSE [blob |-> r.blob, err |-> NoErr])

\* mustDecodeNode panics on a blob that does not decode.
resolveAndTrack(h, prefix) ==
    With(Trie_nodeBlob(prefix, h), LAMBDA b :
        IF b.err # NoErr THEN [node |-> Nil, err |-> b.err]
        ELSE With(decodeNode(h, b.blob), LAMBDA n :
                 IF IsErr(n) THEN [node |-> Nil, err |-> Panic]
                 ELSE [node |-> n, err |-> NoErr]))

resolve(n, prefix) ==
    IF n.t = "hash" THEN resolveAndTrack(n.h, prefix) ELSE [node |-> n, err |-> NoErr]

\* --------------------------------------------------------------- Trie.tryGet
\* A result that never carries an error.
GetRes_noErr(value, newnode, didResolve, err) ==
    [value |-> value, newnode |-> newnode, didResolve |-> didResolve, err |-> NoErr]

GetRes(value, newnode, didResolve, err) ==
    [value |-> value, newnode |-> newnode, didResolve |-> didResolve, err |-> err]

RECURSIVE tryGet(_, _, _)
tryGet(n, key, pos) ==
    CASE n.t = "nil" -> GetRes(NilValue, Nil, FALSE, NoErr)
      [] n.t = "value" -> GetRes(n.b, n, FALSE, NoErr)
      [] n.t = "short" ->
         IF Len(key) - pos < Len(n.Key) \/ n.Key # SubSeq(key, pos + 1, pos + Len(n.Key))
         THEN GetRes(NilValue, n, FALSE, NoErr)
         ELSE With(tryGet(n.Val, key, pos + Len(n.Key)), LAMBDA r :
                  GetRes(r.value,
                         IF r.err = NoErr /\ r.didResolve
                         THEN [n EXCEPT !.Val = r.newnode] ELSE n,
                         r.didResolve, r.err))
      [] n.t = "full" ->
         With(tryGet(n.Children[key[pos + 1]], key, pos + 1), LAMBDA r :
             GetRes(r.value,
                    IF r.err = NoErr /\ r.didResolve
                    THEN [n EXCEPT !.Children[key[pos + 1]] = r.newnode] ELSE n,
                    r.didResolve, r.err))
      [] n.t = "hash" ->
         With(resolveAndTrack(n.h, Take(key, pos)), LAMBDA c :
             IF c.err # NoErr THEN GetRes(NilValue, n, TRUE, c.err)
             ELSE With(tryGet(c.node, key, pos), LAMBDA r :
                      GetRes(r.value, r.newnode, TRUE, r.err)))

\* --------------------------------------------------------------- Trie.insert
\* A result that always says the node has changed.
Res_alwaysDirty(dirty, node, err) == [dirty |-> TRUE, node |-> node, err |-> err]
Res(dirty, node, err) == [dirty |-> dirty, node |-> node, err |-> err]

RECURSIVE Trie_insert(_, _, _, _)
Trie_insert(n, prefix, key, value) ==
    IF Len(key) = 0
    THEN IF n.t = "value" THEN Res(n.b # value.b, value, NoErr)
         ELSE Res(TRUE, value, NoErr)
    ELSE CASE n.t = "short" ->
              With(prefixLen(key, n.Key), LAMBDA matchlen :
                  IF matchlen = Len(n.Key)
                  THEN With(Trie_insert(n.Val, prefix \o Take(key, matchlen),
                                        Drop(key, matchlen), value), LAMBDA r :
                           IF ~r.dirty \/ r.err # NoErr THEN Res(FALSE, n, r.err)
                           ELSE Res(TRUE, shortNode(n.Key, r.node, newFlag), NoErr))
                  ELSE With(Trie_insert(Nil, prefix \o Take(n.Key, matchlen + 1),
                                        Drop(n.Key, matchlen + 1), n.Val), LAMBDA old :
                       With(Trie_insert(Nil, prefix \o Take(key, matchlen + 1),
                                        Drop(key, matchlen + 1), value), LAMBDA new :
                       With(fullNode([[NoChildren EXCEPT ![n.Key[matchlen + 1]] = old.node]
                                         EXCEPT ![key[matchlen + 1]] = new.node], newFlag),
                            LAMBDA branch :
                           IF old.err # NoErr THEN Res(FALSE, Nil, old.err)
                           ELSE IF new.err # NoErr THEN Res(FALSE, Nil, new.err)
                           ELSE IF matchlen = 0 THEN Res(TRUE, branch, NoErr)
                           ELSE Res(TRUE, shortNode(Take(key, matchlen), branch, newFlag),
                                    NoErr)))))
           [] n.t = "full" ->
              With(Trie_insert(n.Children[key[1]], prefix \o <<key[1]>>, Tail(key), value),
                   LAMBDA r :
                  IF ~r.dirty \/ r.err # NoErr THEN Res(FALSE, n, r.err)
                  ELSE Res(TRUE, fullNode([n.Children EXCEPT ![key[1]] = r.node], newFlag),
                           NoErr))
           [] n.t = "nil" -> Res(TRUE, shortNode(key, value, newFlag), NoErr)
           [] n.t = "hash" ->
              With(resolveAndTrack(n.h, prefix), LAMBDA rn :
                  IF rn.err # NoErr THEN Res(FALSE, Nil, rn.err)
                  ELSE With(Trie_insert(rn.node, prefix, key, value), LAMBDA r :
                           IF ~r.dirty \/ r.err # NoErr THEN Res(FALSE, rn.node, r.err)
                           ELSE Res(TRUE, r.node, NoErr)))
           [] OTHER -> Res(FALSE, Nil, Panic)

\* --------------------------------------------------------------- Trie.delete
\* The index of the single non-nil child, -1 if there is none, -2 if several.
singlePos(children) ==
    With({i \in 0..16 : children[i] # Nil}, LAMBDA S :
        IF S = {} THEN -1
        ELSE IF Cardinality(S) = 1 THEN CHOOSE i \in S : TRUE
        ELSE -2)

\* A branch that is kept whatever is left in it.
reduceFull_keep(nn, prefix) == Res(TRUE, nn, NoErr)

\* A reduction that takes the child left as it stands, loaded or not.
reduceFull_noResolve(nn, prefix) ==
    With(singlePos(nn.Children), LAMBDA pos :
        IF pos >= 0
        THEN IF pos # 16 /\ nn.Children[pos].t = "short"
             THEN Res(TRUE, shortNode(<<pos>> \o nn.Children[pos].Key, nn.Children[pos].Val,
                                      newFlag), NoErr)
             ELSE Res(TRUE, shortNode(<<pos>>, nn.Children[pos], newFlag), NoErr)
        ELSE Res(TRUE, nn, NoErr))

\* The reduction of a branch that lost a child: a branch with one child left
\* becomes a short node.
reduceFull(nn, prefix) ==
    With(singlePos(nn.Children), LAMBDA pos :
        IF pos >= 0
        THEN IF pos # 16
             THEN With(resolve(nn.Children[pos], prefix \o <<pos>>), LAMBDA c :
                      IF c.err # NoErr THEN Res(FALSE, Nil, c.err)
                      ELSE IF c.node.t = "short"
                      THEN Res(TRUE, shortNode(<<pos>> \o c.node.Key, c.node.Val, newFlag),
                               NoErr)
                      ELSE Res(TRUE, shortNode(<<pos>>, nn.Children[pos], newFlag), NoErr))
             ELSE Res(TRUE, shortNode(<<pos>>, nn.Children[pos], newFlag), NoErr)
        ELSE Res(TRUE, nn, NoErr))

\* The short node kept over its new child, whatever the child is.
mergeShort_noMerge(n, child) == shortNode(n.Key, child, newFlag)

\* A short node whose child was reduced to a short node is merged with it.
mergeShort(n, child) ==
    IF child.t = "short" THEN shortNode(n.Key \o child.Key, child.Val, newFlag)
    ELSE shortNode(n.Key, child, newFlag)

RECURSIVE Trie_delete(_, _, _)
Trie_delete(n, prefix, key) ==
    CASE n.t = "short" ->
         With(prefixLen(key, n.Key), LAMBDA matchlen :
             IF matchlen < Len(n.Key) THEN Res(FALSE, n, NoErr)
             ELSE IF matchlen = Len(key) THEN Res(TRUE, Nil, NoErr)
             ELSE With(Trie_delete(n.Val, prefix \o Take(key, Len(n.Key)),
                                   Drop(key, Len(n.Key))), LAMBDA r :
                      IF ~r.dirty \/ r.err # NoErr THEN Res(FALSE, n, r.err)
                      ELSE Res(TRUE, mergeShort(n, r.node), NoErr)))
      [] n.t = "full" ->
         With(Trie_delete(n.Children[key[1]], prefix \o <<key[1]>>, Tail(key)), LAMBDA r :
         With(fullNode([n.Children EXCEPT ![key[1]] = r.node], newFlag), LAMBDA nn :
             IF ~r.dirty \/ r.err # NoErr THEN Res(FALSE, n, r.err)
             ELSE IF r.node # Nil THEN Res(TRUE, nn, NoErr)
             ELSE reduceFull(nn, prefix)))
      [] n.t = "value" -> Res(TRUE, Nil, NoErr)
      [] n.t = "nil" -> Res(FALSE, Nil, NoErr)
      [] n.t = "hash" ->
         With(resolveAndTrack(n.h, prefix), LAMBDA rn :
             IF rn.err # NoErr THEN Res(FALSE, Nil, rn.err)
             ELSE With(Trie_delete(rn.node, prefix, key), LAMBDA r :
                      IF ~r.dirty \/ r.err # NoErr THEN Res(FALSE, rn.node, r.err)
                      ELSE Res(TRUE, r.node, NoErr)))
      [] OTHER -> Res(FALSE, Nil, Panic)

\* Trie.tryUpdate without its delete branch.
tryUpdate_insertOnly(rt, key, value) ==
    Trie_insert(rt, <<>>, keybytesToHex(key), valueNode(value))

\* Trie.tryUpdate: an empty value deletes the key.
tryUpdate(rt, key, value) ==
    With(keybytesToHex(key), LAMBDA k :
        IF BLen(value) # 0 THEN Trie_insert(rt, <<>>, k, valueNode(value))
        ELSE Trie_delete(rt, <<>>, k))

\* Trie.hashRoot answering the zero hash for the empty trie.
hashRoot_zeroForEmpty(rt) ==
    IF rt = Nil THEN <<hashNode(ZeroHash), Nil>> ELSE hasher_hash(rt, TRUE)

\* Trie.hashRoot: <<hash, cached root>>.
hashRoot(rt) ==
    IF rt = Nil THEN <<hashNode(emptyRoot), Nil>> ELSE hasher_hash(rt, TRUE)

\* ----------------------------------------------------------------- NodeSet
\* f extended (or overwritten) at x with y.
Put1(f, x, y) == [z \in DOMAIN f \cup {x} |-> IF z = x THEN y ELSE f[z]]
\* f without x.
Del1(f, x) == [z \in DOMAIN f \ {x} |-> f[z]]
EmptyMap == [z \in {} |-> 0]

NewNodeSet(owner) ==
    [owner |-> owner, order |-> <<>>, nodes |-> EmptyMap, deletes |-> EmptyMap,
     leaves |-> <<>>]

\* A markUpdated that puts the path at the head of the order.
markUpdated_first(set, path, mnode, oldv) ==
    [set EXCEPT !.order = <<path>> \o @,
                !.nodes = Put1(@, path, [hash |-> mnode.hash, node |-> mnode.node,
                                         oldv |-> oldv])]

\* NodeSet.markUpdated
markUpdated(set, path, mnode, oldv) ==
    [set EXCEPT !.order = Append(@, path),
                !.nodes = Put1(@, path, [hash |-> mnode.hash, node |-> mnode.node,
                                         oldv |-> oldv])]

markDeleted(set, path, oldv) == [set EXCEPT !.deletes = Put1(@, path, oldv)]

\* An addLeaf that drops the leaf.
addLeaf_none(set, leaf) == set

\* NodeSet.addLeaf
addLeaf(set, leaf) == [set EXCEPT !.leaves = Append(@, leaf)]

\* A Merge that replaces the NodeSet of an owner merged already.
Merge_overwrite(sets, other) == [sets |-> Put1(sets, other.owner, other), err |-> NoErr]

\* MergedNodeSet.Merge: a second NodeSet of one owner is refused.
Merge(sets, other) ==
    IF other.owner \in DOMAIN sets
    THEN [sets |-> sets, err |-> [e |-> "duplicate trie for owner"]]
    ELSE [sets |-> Put1(sets, other.owner, other), err |-> NoErr]

\* A set as a sequence, in some fixed order.
RECURSIVE SetToSeq(_)
SetToSeq(S) ==
    IF S = {} THEN <<>>
    ELSE With(CHOOSE y \in S : TRUE, LAMBDA x : <<x>> \o SetToSeq(S \ {x}))

\* ---------------------------------------------------------- change tracker
\* A trieCapture is nil or holds the paths inserted, the paths deleted and
\* the blobs of the nodes read, by path.
\* Trie.capture: New makes the trie without one and nothing sets it.
TrieCapture == Nil

\* newTracer
newTracer == [insert |-> {}, delete |-> {}, origin |-> EmptyMap]

\* trieCapture.onRead: the blob of the node loaded at path.
onRead(t, path, val) ==
    IF t = Nil THEN t ELSE [t EXCEPT !.origin = Put1(@, path, val)]

\* An onInsert that always adds the path to the insert set.
onInsert_add(t, path) ==
    IF t = Nil THEN t ELSE [t EXCEPT !.insert = @ \cup {path}]

\* trieCapture.onInsert: a path in the delete set is taken out of it and
\* not inserted.
onInsert(t, path) ==
    IF t = Nil THEN t
    ELSE IF path \in t.delete THEN [t EXCEPT !.delete = @ \ {path}]
    ELSE [t EXCEPT !.insert = @ \cup {path}]

\* trieCapture.onDelete: a path in the insert set is taken out of it and
\* not deleted.
onDelete(t, path) ==
    IF t = Nil THEN t
    ELSE IF path \in t.insert THEN [t EXCEPT !.insert = @ \ {path}]
    ELSE [t EXCEPT !.delete = @ \cup {path}]

\* trieCapture.reset
reset(t) == IF t = Nil THEN t ELSE newTracer

\* trieCapture.getOldv: nothing for a nil tracker and for a path not read.
getOldv(t, path) ==
    IF t = Nil THEN NoBlob
    ELSE IF path \in DOMAIN t.origin THEN t.origin[path] ELSE NoBlob

\* trieCapture.deleteList: the deleted paths, in the order the map is ranged
\* over; none for a nil tracker.
deleteList(t) == IF t = Nil THEN <<>> ELSE SetToSeq(t.delete)

\* --------------------------------------------------------------- committer
\* simplifyNode: the collapsed node without its cache flags.
RECURSIVE simplifyNode(_)
simplifyNode(n) ==
    CASE n.t = "short" -> [t |-> "short", Key |-> n.Key, Val |-> simplifyNode(n.Val)]
      [] n.t = "full" ->
         [t |-> "full", Children |-> [i \in 0..16 |-> simplifyNode(n.Children[i])]]
      [] OTHER -> n

\* committer.nodeCommit: a node with a hash goes into the set, with the blob
\* the tracker read at its path, and is replaced by its hash; a node without
\* one stays embedded in its parent and is marked deleted when the tracker
\* read a blob at its path.
nodeCommit(path, collapsed, set, collectLeaf) ==
    With(cache(collapsed)[1], LAMBDA h :
    With(getOldv(TrieCapture, path), LAMBDA oldv :
        IF h = Nil
        THEN [node |-> collapsed,
              set |-> IF collapsed.t # "hash" /\ ItemSize(oldv) # 0
                      THEN markDeleted(set, path, oldv) ELSE set]
        ELSE With(markUpdated(set, path, [hash |-> h, node |-> simplifyNode(collapsed)],
                              oldv), LAMBDA s1 :
                 [node |-> hashNode(h),
                  set |-> IF collectLeaf /\ collapsed.t = "short" /\ collapsed.Val.t = "value"
                          THEN addLeaf(s1, [blob |-> collapsed.Val.b, parent |-> h])
                          ELSE s1])))

RECURSIVE committer_commit(_, _, _, _)
RECURSIVE commitChildren(_, _, _, _, _)

\* committer.commitChildren, from child i on: acc is [children, set].
commitChildren(path, n, i, acc, collectLeaf) ==
    IF i = 16
    THEN [children |-> [acc.children EXCEPT ![16] = n.Children[16]], set |-> acc.set]
    ELSE With(n.Children[i], LAMBDA child :
             IF child = Nil THEN commitChildren(path, n, i + 1, acc, collectLeaf)
             ELSE IF child.t = "hash"
             THEN commitChildren(path, n, i + 1,
                                 [acc EXCEPT !.children[i] = child], collectLeaf)
             ELSE With(committer_commit(path \o <<i>>, child, acc.set, collectLeaf),
                       LAMBDA r :
                      commitChildren(path, n, i + 1,
                                     [children |-> [acc.children EXCEPT ![i] = r.node],
                                      set |-> r.set], collectLeaf)))

\* committer.commit: [node, set], the hash (or embedded node) standing for n.
committer_commit(path, n, set, collectLeaf) ==
    IF cache(n)[1] # Nil /\ ~cache(n)[2] THEN [node |-> hashNode(cache(n)[1]), set |-> set]
    ELSE CASE n.t = "short" ->
              With(IF n.Val.t = "full"
                   THEN committer_commit(path \o n.Key, n.Val, set, collectLeaf)
                   ELSE [node |-> n.Val, set |-> set], LAMBDA c :
                  nodeCommit(path, [n EXCEPT !.Val = c.node, !.Key = hexToCompact(n.Key)],
                             c.set, collectLeaf))
           [] n.t = "full" ->
              With(commitChildren(path, n, 0, [children |-> NoChildren, set |-> set],
                                  collectLeaf), LAMBDA c :
                  nodeCommit(path, [n EXCEPT !.Children = c.children], c.set, collectLeaf))
           [] OTHER -> [node |-> n, set |-> set]

\* The loop of committer.Commit over the tracker's deleted paths: a path the
\* tracker read a blob at is marked deleted.
RECURSIVE markDeletes(_, _, _)
markDeletes(set, t, paths) ==
    IF Len(paths) = 0 THEN set
    ELSE markDeletes(IF ItemSize(getOldv(t, paths[1])) = 0 THEN set
                     ELSE markDeleted(set, paths[1], getOldv(t, paths[1])),
                     t, Tail(paths))

\* committer.Commit: [node, set].
committer_Commit(n, set, collectLeaf) ==
    With(committer_commit(<<>>, n, set, collectLeaf), LAMBDA r :
        [node |-> r.node, set |-> markDeletes(r.set, TrieCapture, deleteList(TrieCapture))])

\* Trie.Commit: hash the trie, then collect its dirty nodes into a NodeSet of
\* owner zero with the trie's tracker: [root, nodes].
Trie_Commit(rt, collectLeaf) ==
    With(hashRoot(rt), LAMBDA h :
        [root |-> h[1].h,
         nodes |-> committer_Commit(h[2], NewNodeSet(ZeroHash), collectLeaf).set])

\* ------------------------------------------------------------------ TrieDB
\* The hash references inside a cached node, embedded children included.
RECURSIVE gatherChildren(_)
RECURSIVE gatherFrom(_, _)
gatherFrom(children, i) ==
    IF i = 16 THEN <<>> ELSE gatherChildren(children[i]) \o gatherFrom(children, i + 1)
gatherChildren(n) ==
    CASE n.t = "short" -> gatherChildren(n.Val)
      [] n.t = "full" -> gatherFrom(n.Children, 0)
      [] n.t = "hash" -> <<n.h>>
      [] OTHER -> <<>>

\* cachedNode.forChilds: the keys of the children map, then the node's own
\* hash references.
forChilds(entry) == SetToSeq(DOMAIN entry.children) \o gatherChildren(entry.node)

\* The TrieDB fields the mutators work on.
DB(d, o, n) == [dirties |-> d, oldest |-> o, newest |-> n, panic |-> FALSE]
DBPanic(db) == [db EXCEPT !.panic = TRUE]

cachedNode(node, flushPrev) ==
    [node |-> node, parents |-> 0, children |-> EmptyMap,
     flushPrev |-> flushPrev, flushNext |-> ZeroHash]

\* The sentinel entry of the zero hash, made by NewTrieDB.
Sentinel == cachedNode(Nil, ZeroHash)

\* parents++ for every listed child that is cached.
RECURSIVE countParents(_, _)
countParents(d, childs) ==
    IF Len(childs) = 0 THEN d
    ELSE countParents(IF childs[1] \in DOMAIN d
                      THEN [d EXCEPT ![childs[1]].parents = @ + 1] ELSE d,
                      Tail(childs))

\* An insert without the test for a cached hash.
DB_insert_again(db, h, node) ==
    With(cachedNode(node, db.newest), LAMBDA entry :
    With(Put1(countParents(db.dirties, forChilds(entry)), h, entry), LAMBDA d1 :
        IF db.oldest = ZeroHash
        THEN [db EXCEPT !.dirties = d1, !.oldest = h, !.newest = h]
        ELSE IF db.newest \notin DOMAIN d1 THEN DBPanic(db)
        ELSE [db EXCEPT !.dirties = [d1 EXCEPT ![db.newest].flushNext = h],
                        !.newest = h]))

\* TrieDB.insert
DB_insert(db, h, node) ==
    IF h \in DOMAIN db.dirties THEN db
    ELSE With(cachedNode(node, db.newest), LAMBDA entry :
         With(Put1(countParents(db.dirties, forChilds(entry)), h, entry), LAMBDA d1 :
             IF db.oldest = ZeroHash
             THEN [db EXCEPT !.dirties = d1, !.oldest = h, !.newest = h]
             ELSE IF db.newest \notin DOMAIN d1 THEN DBPanic(db)
             ELSE [db EXCEPT !.dirties = [d1 EXCEPT ![db.newest].flushNext = h],
                             !.newest = h]))

\* A reference that does not look for the reference it adds.
DB_reference_always(db, child, parent) ==
    IF child \notin DOMAIN db.dirties THEN db
    ELSE IF parent \notin DOMAIN db.dirties THEN DBPanic(db)
    ELSE With(db.dirties[parent].children, LAMBDA cs :
             [db EXCEPT !.dirties =
                 [[db.dirties EXCEPT ![child].parents = @ + 1]
                     EXCEPT ![parent].children =
                         Put1(cs, child, (IF child \in DOMAIN cs THEN cs[child] ELSE 0) + 1)]])

\* TrieDB.reference: a count of the children map is a uint16.
DB_reference(db, child, parent) ==
    IF child \notin DOMAIN db.dirties THEN db
    ELSE IF parent \notin DOMAIN db.dirties THEN DBPanic(db)
    ELSE IF child \in DOMAIN db.dirties[parent].children /\ parent # ZeroHash THEN db
    ELSE With(db.dirties[parent].children, LAMBDA cs :
             [db EXCEPT !.dirties =
                 [[db.dirties EXCEPT ![child].parents = @ + 1]
                     EXCEPT ![parent].children =
                         Put1(cs, child,
                              ((IF child \in DOMAIN cs THEN cs[child] ELSE 0) + 1) % 65536)]])

\* The account record in a leaf value: user values are not account records.
decodeAccount(blob) ==
    IF "acct" \in DOMAIN blob THEN [Root |-> blob.acct, err |-> NoErr]
    ELSE [Root |-> ZeroHash, err |-> [e |-> "rlp: expected List"]]

\* The insertion loop of TrieDB.Update over one NodeSet, from position i on.
RECURSIVE insertNodes(_, _, _)
insertNodes(db, subset, i) ==
    IF i > Len(subset.order) \/ db.panic THEN [db |-> db, err |-> NoErr]
    ELSE With(subset.order[i], LAMBDA path :
             IF path \notin DOMAIN subset.nodes
             THEN [db |-> db, err |-> [e |-> "missing node"]]
             ELSE insertNodes(DB_insert(db, subset.nodes[path].hash, subset.nodes[path].node),
                              subset, i + 1))

RECURSIVE insertSets(_, _, _)
insertSets(db, sets, order) ==
    IF Len(order) = 0 THEN [db |-> db, err |-> NoErr]
    ELSE With(insertNodes(db, sets[order[1]], 1), LAMBDA r :
             IF r.err # NoErr THEN r ELSE insertSets(r.db, sets, Tail(order)))

\* The leaf loop of TrieDB.Update.
RECURSIVE linkLeaves(_, _)
linkLeaves(db, leaves) ==
    IF Len(leaves) = 0 \/ db.panic THEN [db |-> db, err |-> NoErr]
    ELSE With(decodeAccount(leaves[1].blob), LAMBDA account :
             IF account.err # NoErr THEN [db |-> db, err |-> account.err]
             ELSE linkLeaves(IF account.Root # emptyRoot
                             THEN DB_reference(db, account.Root, leaves[1].parent)
                             ELSE db,
                             Tail(leaves)))

\* An Update that takes the set of owner zero first.
DB_Update_accountFirst(db, sets, storageOrder) ==
    With(insertSets(db, sets,
                    (IF ZeroHash \in DOMAIN sets THEN <<ZeroHash>> ELSE <<>>) \o storageOrder),
         LAMBDA r :
        IF r.err # NoErr \/ ZeroHash \notin DOMAIN sets THEN r
        ELSE linkLeaves(r.db, sets[ZeroHash].leaves))

\* TrieDB.Update: the storage sets in the given order, then the set of owner
\* zero, then the leaves of the set of owner zero.
DB_Update(db, sets, storageOrder) ==
    With(insertSets(db, sets,
                    storageOrder \o (IF ZeroHash \in DOMAIN sets THEN <<ZeroHash>> ELSE <<>>)),
         LAMBDA r :
        IF r.err # NoErr \/ ZeroHash \notin DOMAIN sets THEN r
        ELSE linkLeaves(r.db, sets[ZeroHash].leaves))

\* TrieDB.Nodes: every cached hash but the sentinel.
Nodes == DOMAIN dirties \ {ZeroHash}

\* ---------------------------------------------------------------- memBatch
\* A batch size of twice as much.
IdealBatchSize_twice == 200 * 1024

\* accdb.IdealBatchSize
IdealBatchSize == 100 * 1024

\* A batch has its queue, its size and, an input, the keys its Put refuses:
\* memorydb's batch refuses none.
NewBatch == [writes |-> <<>>, size |-> 0, bad |-> {}]

\* The batch of a store whose Put fails for the keys in bad.
NewBatchRefusing(bad) == [NewBatch EXCEPT !.bad = bad]

PutFailed == [e |-> "put failed"]

\* Batch.Put: the key is a 32-byte hash. A refused key is not queued.
Batch_Put(b, key, value) ==
    IF key \in b.bad THEN [batch |-> b, err |-> PutFailed]
    ELSE [batch |-> [b EXCEPT !.writes = Append(@, [key |-> key, value |-> value]),
                              !.size = @ + BLen(key) + ItemSize(value)],
          err |-> NoErr]

\* A Write that reports success and stores nothing.
Batch_Write_nothing(kv, writes) == kv

\* memBatch.Write: the queued writes are applied in order; the queue is kept.
RECURSIVE Batch_Write(_, _)
Batch_Write(kv, writes) ==
    IF Len(writes) = 0 THEN kv
    ELSE Batch_Write(Put1(kv, writes[1].key, writes[1].value), Tail(writes))

\* A Reset that empties the queue and keeps the size.
Batch_Reset_queueOnly(b) == [b EXCEPT !.writes = <<>>]

\* memBatch.Reset
Batch_Reset(b) == [b EXCEPT !.writes = <<>>, !.size = 0]

\* ----------------------------------------------------------------- cleaner
\* A cleaner.Put that leaves the cache alone.
cleaner_Put_keep(db, h) == db

\* cleaner.Put: the written node leaves the flush-list and the dirty cache.
cleaner_Put(db, h) ==
    IF h \notin DOMAIN db.dirties THEN db
    ELSE LET node == db.dirties[h]
             d == db.dirties
         IN  IF h = db.oldest
             THEN IF node.flushNext \notin DOMAIN d THEN DBPanic(db)
                  ELSE [db EXCEPT !.oldest = node.flushNext,
                                  !.dirties = Del1([d EXCEPT ![node.flushNext].flushPrev = ZeroHash], h)]
             ELSE IF h = db.newest
             THEN IF node.flushPrev \notin DOMAIN d THEN DBPanic(db)
                  ELSE [db EXCEPT !.newest = node.flushPrev,
                                  !.dirties = Del1([d EXCEPT ![node.flushPrev].flushNext = ZeroHash], h)]
             ELSE IF node.flushPrev \notin DOMAIN d \/ node.flushNext \notin DOMAIN d
             THEN DBPanic(db)
             ELSE LET d1 == [d EXCEPT ![node.flushPrev].flushNext = node.flushNext]
                  IN  [db EXCEPT !.dirties = Del1([d1 EXCEPT ![node.flushNext].flushPrev = node.flushPrev], h)]

\* A Replay that stops after the first queued write.
Batch_Replay_first(db, writes) ==
    IF Len(writes) = 0 THEN db ELSE cleaner_Put(db, writes[1].key)

\* memBatch.Replay into the cleaner: one cleaner.Put for every queued write.
RECURSIVE Batch_Replay(_, _)
Batch_Replay(db, writes) ==
    IF Len(writes) = 0 \/ db.panic THEN db
    ELSE Batch_Replay(cleaner_Put(db, writes[1].key), Tail(writes))

\* ----------------------------------------------------------- TrieDB.commit
\* The recursion of TrieDB.commit is a stack of frames: the node being
\* committed and its children still to visit. walk runs it up to the next
\* batch.Write: "write" inside commit (the batch is full), "final" in Commit.
\* The error of batch.Put is dropped.
Frame(d, h) == [hash |-> h, node |-> d[h], kids |-> forChilds(d[h])]

RECURSIVE walk(_, _, _)
walk(d, stack, b) ==
    IF Len(stack) = 0 THEN [pc |-> "final", stack |-> stack, batch |-> b]
    ELSE With(stack[1], LAMBDA top :
             IF Len(top.kids) > 0
             THEN With(<<[top EXCEPT !.kids = Tail(@)]>> \o Tail(stack), LAMBDA rest :
                      IF top.kids[1] \in DOMAIN d
                      THEN walk(d, <<Frame(d, top.kids[1])>> \o rest, b)
                      ELSE walk(d, rest, b))
             ELSE With(Batch_Put(b, top.hash, rlp(top.node)).batch, LAMBDA b1 :
                      IF b1.size >= IdealBatchSize
                      THEN [pc |-> "write", stack |-> Tail(stack), batch |-> b1]
                      ELSE walk(d, Tail(stack), b1)))

\* A commit that also queues a root it does not find in the cache.
startStack_always(d, h) ==
    IF h \in DOMAIN d THEN <<Frame(d, h)>>
    ELSE <<[hash |-> h, node |-> Sentinel, kids |-> <<>>]>>

\* The first frame of TrieDB.commit(root).
startStack(d, h) == IF h \in DOMAIN d THEN <<Frame(d, h)>> ELSE <<>>

\* -------------------------------------------------------------------- Init
EmptyModel == [k \in TrieKeys |-> NilValue]
IdleCommit ==
    [pc |-> "idle", root |-> ZeroHash, stack |-> <<>>, err |-> NoErr, done |-> FALSE,
     reach |-> {}, present |-> {}, again |-> FALSE, retry |-> FALSE, partial |-> FALSE,
     snap |-> <<>>, flushes |-> 0, at |-> 0]
IdleReader == [pc |-> "idle", hash |-> ZeroHash, found |-> FALSE, from |-> "none"]
\* A blob was returned: NodeBlob's callers test len(blob) = 0 for a missing node.
Found(blob) == ItemSize(blob) > 0
NoPending ==
    [st |-> "none", root |-> ZeroHash, nodes |-> NewNodeSet(ZeroHash), err |-> NoErr,
     clean |-> FALSE]

\* NewTrieDB over an empty memory store, and NewEmpty(triedb).
Init ==
    /\ root = Nil
    /\ trie = "open"
    /\ model = EmptyModel
    /\ last = [op |-> "new", hash |-> ZeroHash, err |-> NoErr, consulted |-> FALSE]
    /\ nOps = 0
    /\ gen = 0
    /\ pending = NoPending
    /\ merged = EmptyMap
    /\ dirties = [h \in {ZeroHash} |-> Sentinel]
    /\ oldest = ZeroHash
    /\ newest = ZeroHash
    /\ disk = EmptyMap
    /\ batch = NewBatch
    /\ commit = IdleCommit
    /\ reader = IdleReader
    /\ roots = EmptyMap
    /\ opened = ZeroHash
    /\ committed = {}
    /\ crashed = FALSE
    /\ tracer = Nil

dbVars == <<dirties, oldest, newest, disk, batch, commit>>
trieVars == <<root, trie, model, nOps, opened>>

Quiet == commit.pc = "idle" /\ reader.pc = "idle" /\ ~crashed

\* ------------------------------------------------------------ trie actions
\* A trie call that ended with error err: a panic ends the program.
Failing(err) == crashed' = (err = Panic)

\* An Update that installs whatever tryUpdate returned, failed or not.
TrieUpdate_rootAlways(key, value) ==
    /\ Quiet /\ trie = "open"
    /\ \E r \in {tryUpdate(root, key, value)} :
           /\ root' = r.node
           /\ model' = IF r.err = NoErr THEN [model EXCEPT ![key] = value] ELSE model
           /\ last' = [op |-> "update", err |-> r.err]
           /\ Failing(r.err)
    /\ nOps' = nOps + 1
    /\ opened' = ZeroHash
    /\ UNCHANGED <<tracer, trie, gen, pending, merged, dbVars, reader, roots, committed>>

\* Trie.Update(key, value)
TrieUpdate(key, value) ==
    /\ Quiet /\ trie = "open"
    /\ \E r \in {tryUpdate(root, key, value)} :
           /\ root' = IF r.err = NoErr THEN r.node ELSE root
           /\ model' = IF r.err = NoErr THEN [model EXCEPT ![key] = value] ELSE model
           /\ last' = [op |-> "update", err |-> r.err]
           /\ Failing(r.err)
    /\ nOps' = nOps + 1
    /\ opened' = ZeroHash
    /\ UNCHANGED <<tracer, trie, gen, pending, merged, dbVars, reader, roots, committed>>

\* Trie.Delete(key): the delete branch of the update.
TrieDelete(key) ==
    /\ Quiet /\ trie = "open"
    /\ \E r \in {Trie_delete(root, <<>>, keybytesToHex(key))} :
           /\ root' = IF r.err = NoErr THEN r.node ELSE root
           /\ model' = IF r.err = NoErr THEN [model EXCEPT ![key] = NilValue] ELSE model
           /\ last' = [op |-> "delete", err |-> r.err]
           /\ Failing(r.err)
    /\ nOps' = nOps + 1
    /\ opened' = ZeroHash
    /\ UNCHANGED <<tracer, trie, gen, pending, merged, dbVars, reader, roots, committed>>

\* Trie.TryGet(key)
TrieGet(key) ==
    /\ Quiet /\ trie = "open"
    /\ \E r \in {tryGet(root, keybytesToHex(key), 0)} :
           /\ root' = IF r.err = NoErr /\ r.didResolve THEN r.newnode ELSE root
           /\ last' = [op |-> "get", err |-> r.err]
           /\ Failing(r.err)
    /\ UNCHANGED <<tracer, trie, model, nOps, gen, pending, merged, dbVars, reader, roots, opened,
                   committed>>

\* Trie.Hash()
TrieHash ==
    /\ Quiet /\ trie = "open"
    /\ \E h \in {hashRoot(root)} :
           /\ root' = h[2]
           /\ last' = [op |-> "hash", hash |-> h[1].h, wasNil |-> root = Nil]
    /\ UNCHANGED <<tracer, trie, model, nOps, gen, pending, merged, dbVars, reader, roots, opened,
                   committed, crashed>>

\* Trie.Commit(collectLeaf): the trie is consumed, the caller holds the root
\* hash and the NodeSet. An empty trie is not committed.
TrieCommit(collectLeaf) ==
    /\ Quiet /\ trie = "open" /\ root # Nil /\ gen < MaxGen
    /\ pending.st \in {"none", "updated"}
    /\ \E c \in {Trie_Commit(root, collectLeaf)} :
           /\ pending' = [st |-> "nodes", root |-> c.root, nodes |-> c.nodes, err |-> NoErr,
                          clean |-> FALSE]
           /\ roots' = Put1(roots, c.root, model)
           /\ last' = [op |-> "commit", hash |-> c.root]
    /\ trie' = "none"
    /\ root' = Nil
    /\ gen' = gen + 1
    /\ opened' = ZeroHash
    /\ UNCHANGED <<tracer, model, nOps, merged, dbVars, reader, committed, crashed>>

\* New(TrieID(h), db)
TrieNew(h) ==
    /\ Quiet /\ trie = "none"
    /\ pending.st \in {"none", "updated"} \/ h = pending.root
    /\ IF h # ZeroHash /\ h # emptyRoot
       THEN \E r \in {resolveAndTrack(h, <<>>)} :
                /\ trie' = IF r.err = NoErr THEN "open" ELSE "none"
                /\ root' = IF r.err = NoErr THEN r.node ELSE Nil
                /\ model' = IF r.err = NoErr THEN roots[h] ELSE model
                /\ last' = [op |-> "new", hash |-> h, err |-> r.err, consulted |-> TRUE]
                /\ opened' = IF r.err = NoErr THEN h ELSE ZeroHash
                /\ Failing(r.err)
       ELSE /\ trie' = "open"
            /\ root' = Nil
            /\ model' = EmptyModel
            /\ last' = [op |-> "new", hash |-> h, err |-> NoErr, consulted |-> FALSE]
            /\ opened' = ZeroHash
            /\ crashed' = FALSE
    /\ commit' = IdleCommit
    /\ UNCHANGED <<tracer, nOps, gen, pending, merged, dirties, oldest, newest, disk, batch,
                   reader, roots, committed>>

\* merged.Merge(nodes), the committed nodes being in a NodeSet of the given
\* owner.
MergeNodes(owner) ==
    /\ Quiet /\ pending.st = "nodes"
    /\ \E m \in {Merge(merged, [pending.nodes EXCEPT !.owner = owner])} :
           /\ merged' = m.sets
           /\ pending' = [pending EXCEPT !.st = "merged", !.err = m.err]
           /\ last' = [op |-> "merge", owner |-> owner, err |-> m.err]
    /\ UNCHANGED <<tracer, trieVars, gen, dbVars, reader, roots, committed, crashed>>

\* NewEmpty(triedb) by a caller that keeps its MergedNodeSet for the NodeSet
\* of one more trie.
TrieNewEmpty ==
    /\ Quiet /\ trie = "none" /\ pending.st = "merged"
    /\ trie' = "open"
    /\ root' = Nil
    /\ model' = EmptyModel
    /\ opened' = ZeroHash
    /\ pending' = NoPending
    /\ last' = [op |-> "new", hash |-> ZeroHash, err |-> NoErr, consulted |-> FALSE]
    /\ UNCHANGED <<tracer, nOps, gen, merged, dbVars, reader, roots, committed, crashed>>

\* The orders a map of these keys may be ranged over in.
Orders(S) == {f \in [1..Cardinality(S) -> S] : \A x \in S : \E i \in DOMAIN f : f[i] = x}

\* TrieDB.Update(merged), under the write lock: the storage sets are taken in
\* the order the map of sets is ranged over.
DBUpdate ==
    /\ Quiet /\ pending.st = "merged"
    /\ \E order \in Orders(DOMAIN merged \ {ZeroHash}) :
       \E r \in {DB_Update(DB(dirties, oldest, newest), merged, order)} :
           /\ dirties' = r.db.dirties
           /\ oldest' = r.db.oldest
           /\ newest' = r.db.newest
           /\ crashed' = r.db.panic
           /\ pending' = [pending EXCEPT !.st = "updated", !.err = r.err,
                                          !.nodes = NewNodeSet(ZeroHash),
                                          !.clean = (Nodes = {})]
           /\ last' = [op |-> "dbUpdate", err |-> r.err]
    /\ merged' = EmptyMap
    /\ commit' = IdleCommit
    /\ UNCHANGED <<tracer, trieVars, gen, disk, batch, reader, roots, committed>>

\* ------------------------------------------------------------ TrieDB.Commit
\* The dirty entries commit(h) visits: h and, through forChilds, every cached
\* descendant.
RECURSIVE ReachFrom(_, _, _)
ReachFrom(d, todo, seen) ==
    IF todo = {} THEN seen
    ELSE With(CHOOSE x \in todo : TRUE, LAMBDA h :
         With(forChilds(d[h]), LAMBDA kids :
             ReachFrom(d,
                       (todo \ {h}) \cup
                           (({kids[i] : i \in 1..Len(kids)} \cap DOMAIN d) \ (seen \cup {h})),
                       seen \cup {h})))
Reach(d, h) == IF h \in DOMAIN d THEN ReachFrom(d, {h}, {}) ELSE {}

\* Commit(h) up to its first batch.Write, on a store whose batch refuses the
\* keys in bad.
DBCommitBegin(h, bad) ==
    /\ Quiet /\ trie = "none" /\ pending.st = "updated"
    /\ h \in DOMAIN roots \cup {ZeroHash}
    /\ \E w \in {walk(dirties, startStack(dirties, h), NewBatchRefusing(bad))},
          sameRoot \in {commit.root = h /\ commit.done} :
           /\ batch' = w.batch
           /\ commit' = [pc |-> w.pc, root |-> h, stack |-> w.stack, err |-> NoErr,
                         done |-> FALSE,
                         reach |-> Reach(dirties, h) \cup
                                   (IF sameRoot /\ commit.err # NoErr THEN commit.reach ELSE {}),
                         present |-> (DOMAIN dirties \cup DOMAIN disk) \ {ZeroHash},
                         again |-> sameRoot /\ commit.err = NoErr,
                         retry |-> sameRoot /\ commit.err # NoErr,
                         partial |-> sameRoot /\ commit.err # NoErr /\ commit.flushes > 0,
                         snap |-> IF sameRoot /\ commit.err = NoErr
                                  THEN <<dirties, oldest, newest, disk>> ELSE <<>>,
                         flushes |-> 0, at |-> 0]
    /\ last' = [op |-> "dbCommit", hash |-> h]
    /\ UNCHANGED <<tracer, trieVars, gen, pending, merged, dirties, oldest, newest, disk, reader,
                   roots, committed, crashed>>

\* The error of a store whose Write fails.
WriteFailed == [e |-> "write failed"]

\* batch.Write() whose error is dropped: the replay follows a failed Write too.
DBCommitWrite_ignoreError(ok) ==
    /\ ~crashed /\ commit.pc \in {"write", "final"}
    /\ ok \/ reader.pc = "idle"
    /\ disk' = IF ok THEN Batch_Write(disk, batch.writes) ELSE disk
    /\ commit' = [commit EXCEPT !.pc = IF @ = "write" THEN "replay" ELSE "finalreplay"]
    /\ batch' = batch
    /\ UNCHANGED <<tracer, trieVars, last, gen, pending, merged, dirties, oldest, newest, reader,
                   roots, committed, crashed>>

\* batch.Write(): the store takes the whole batch, or fails and Commit returns
\* the error.
DBCommitWrite(ok) ==
    /\ ~crashed /\ commit.pc \in {"write", "final"}
    /\ ok \/ reader.pc = "idle"
    /\ IF ok
       THEN /\ disk' = Batch_Write(disk, batch.writes)
            /\ commit' = [commit EXCEPT !.pc = IF @ = "write" THEN "replay" ELSE "finalreplay"]
            /\ batch' = batch
       ELSE /\ disk' = disk
            /\ commit' = [commit EXCEPT !.pc = "idle", !.err = WriteFailed,
                                        !.done = TRUE, !.stack = <<>>]
            /\ batch' = batch
    /\ UNCHANGED <<tracer, trieVars, last, gen, pending, merged, dirties, oldest, newest, reader,
                   roots, committed, crashed>>

\* Under the write lock: batch.Replay(uncacher), batch.Reset(); then the walk
\* goes on to the next batch.Write, or Commit returns.
DBCommitReplay ==
    /\ ~crashed /\ commit.pc \in {"replay", "finalreplay"}
    /\ commit.pc = "replay" \/ reader.pc = "idle"
    /\ \E db \in {Batch_Replay(DB(dirties, oldest, newest), batch.writes)} :
           /\ dirties' = db.dirties
           /\ oldest' = db.oldest
           /\ newest' = db.newest
           /\ crashed' = db.panic
           /\ IF commit.pc = "replay"
              THEN \E w \in {walk(db.dirties, commit.stack, Batch_Reset(batch))} :
                   /\ batch' = w.batch
                   /\ commit' = [commit EXCEPT !.pc = w.pc, !.stack = w.stack,
                                               !.flushes = @ + 1]
              ELSE /\ batch' = Batch_Reset(batch)
                   /\ commit' = [commit EXCEPT !.pc = "idle", !.done = TRUE,
                                               !.flushes = @ + 1]
           /\ committed' = IF commit.pc = "finalreplay" /\ ~db.panic
                           THEN committed \cup {commit.root} ELSE committed
    /\ UNCHANGED <<tracer, trieVars, last, gen, pending, merged, disk, reader, roots>>

\* --------------------------------------------- a concurrent TrieDB.nodeBlob
\* nodeBlob(h), first half: the dirty cache is read under the read lock.
ReaderStart(h) ==
    /\ ~crashed /\ commit.pc # "idle" /\ reader.pc = "idle"
    /\ h \in commit.present \cup {ZeroHash}
    /\ reader' = IF h = ZeroHash
                 THEN [pc |-> "done", hash |-> ZeroHash, found |-> FALSE, from |-> "zero"]
                 ELSE IF h \in DOMAIN dirties
                 THEN [pc |-> "done", hash |-> ZeroHash, found |-> Found(rlp(dirties[h])),
                       from |-> "cache"]
                 ELSE [pc |-> "disk", hash |-> h, found |-> FALSE, from |-> "disk"]
    /\ UNCHANGED <<tracer, trieVars, last, gen, pending, merged, dbVars, roots, committed, crashed>>

\* nodeBlob(h), second half: the store is read.
ReaderDisk ==
    /\ ~crashed /\ reader.pc = "disk"
    /\ reader' = [reader EXCEPT !.pc = "done", !.hash = ZeroHash,
                                 !.found = Found(MemDB_Get(disk, reader.hash).value)]
    /\ UNCHANGED <<tracer, trieVars, last, gen, pending, merged, dbVars, roots, committed, crashed>>

\* The reader's call has returned.
ReaderReturn ==
    /\ ~crashed /\ reader.pc = "done"
    /\ reader' = IdleReader
    /\ UNCHANGED <<tracer, trieVars, last, gen, pending, merged, dbVars, roots, committed, crashed>>

\* The account records a caller can write: their storage tries were committed.
AccountValues == {AccountValue(h) : h \in DOMAIN roots}

Next ==
    \/ \E k \in Keys, v \in Values \cup {NilValue} \cup AccountValues :
          nOps < MaxOps /\ TrieUpdate(k, v)
    \/ \E k \in Keys : nOps < MaxOps /\ TrieDelete(k)
    \/ \E k \in Keys : TrieGet(k)
    \/ TrieHash
    \/ \E collectLeaf \in BOOLEAN : TrieCommit(collectLeaf)
    \/ \E h \in {ZeroHash, emptyRoot} \cup DOMAIN roots : TrieNew(h)
    \/ MergeNodes(ZeroHash)
    \/ DBUpdate
    \/ \E h \in DOMAIN roots : DBCommitBegin(h, {})
    \/ \E ok \in BOOLEAN : DBCommitWrite(ok)
    \/ DBCommitReplay
    \/ \E h \in commit.present \cup {ZeroHash} : ReaderStart(h)
    \/ ReaderDisk
    \/ ReaderReturn

Spec == Init /\ [][Next]_vars

\* One trie that is never committed: longer runs of Update, Delete, TryGet and
\* Hash over the empty database.
NextTrie ==
    \/ \E k \in TrieKeys, v \in Values \cup {NilValue} :
          nOps < MaxTrieOps /\ TrieUpdate(k, v)
    \/ \E k \in TrieKeys : nOps < MaxTrieOps /\ TrieDelete(k)
    \/ \E k \in TrieKeys : TrieGet(k)
    \/ TrieHash

SpecTrie == Init /\ [][NextTrie]_vars

\* ------------------------------------------------- the store's other callers
\* The disk store is a KeyValueStore anyone holding it can write to: a blob
\* that is not a serialized node.
GarbageBlob == RStr([v |-> 9, n |-> 3])

\* MemDB.Delete(h) by the store's owner, under a trie that was opened from the
\* store and only read since.
StoreDelete(h) ==
    /\ Quiet /\ trie = "open" /\ opened # ZeroHash /\ h \in DOMAIN disk
    /\ disk' = Del1(disk, h)
    /\ opened' = ZeroHash
    /\ last' = [op |-> "storeDelete", hash |-> h]
    /\ UNCHANGED <<tracer, root, trie, model, nOps, gen, pending, merged, dirties, oldest, newest,
                   batch, commit, reader, roots, committed, crashed>>

\* MemDB.Put(h, blob) by the store's owner, under a trie that was opened from
\* the store and only read since.
StorePut(h, blob) ==
    /\ Quiet /\ trie = "open" /\ opened # ZeroHash /\ h \in DOMAIN disk
    /\ disk' = Put1(disk, h, blob)
    /\ opened' = ZeroHash
    /\ last' = [op |-> "storePut", hash |-> h]
    /\ UNCHANGED <<tracer, root, trie, model, nOps, gen, pending, merged, dirties, oldest, newest,
                   batch, commit, reader, roots, committed, crashed>>

\* The user keys of these runs: 0x12 and 0x35, which part at the root.
StoreKeys == {<<18>>, <<35>>}

\* A trie committed to the store and re-opened over a store that loses or
\* garbles nodes: no concurrent reader, no failing Write, no account leaves.
NextStore ==
    \/ \E k \in StoreKeys, v \in Values \cup {NilValue} :
          nOps < MaxStoreOps /\ TrieUpdate(k, v)
    \/ \E k \in StoreKeys : nOps < MaxStoreOps /\ TrieDelete(k)
    \/ \E k \in StoreKeys : TrieGet(k)
    \/ TrieCommit(FALSE)
    \/ \E h \in DOMAIN roots : TrieNew(h)
    \/ MergeNodes(ZeroHash)
    \/ DBUpdate
    \/ \E h \in DOMAIN roots : DBCommitBegin(h, {})
    \/ DBCommitWrite(TRUE)
    \/ DBCommitReplay
    \/ \E h \in DOMAIN disk : StoreDelete(h)
    \/ \E h \in DOMAIN disk : StorePut(h, GarbageBlob)

SpecStore == Init /\ [][NextStore]_vars

\* ------------------------------------------------------ several NodeSets
\* The owner of a storage trie: the hash of its account.
StorageOwner == Keccak(RStr([k |-> <<1>>]))

\* Tries committed one after the other, their NodeSets merged under the
\* owner zero or the storage owner into one MergedNodeSet, then TrieDB.Update
\* and TrieDB.Commit.
NextMerge ==
    \/ \E k \in StoreKeys, v \in Values \cup AccountValues :
          nOps < MaxMergeOps /\ TrieUpdate(k, v)
    \/ TrieCommit(TRUE)
    \/ \E owner \in {ZeroHash, StorageOwner} : MergeNodes(owner)
    \/ TrieNewEmpty
    \/ DBUpdate
    \/ \E h \in DOMAIN roots : DBCommitBegin(h, {})
    \/ DBCommitWrite(TRUE)
    \/ DBCommitReplay

SpecMerge == Init /\ [][NextMerge]_vars

\* ------------------------------------------------- tries that share nodes
\* Tries made from nothing one after the other over one TrieDB, each handed
\* to TrieDB.Update and committed to a store whose Write may fail.
NextShare ==
    \/ \E k \in StoreKeys, v \in Values : nOps < MaxShareOps /\ TrieUpdate(k, v)
    \/ TrieCommit(FALSE)
    \/ TrieNew(ZeroHash)
    \/ MergeNodes(ZeroHash)
    \/ DBUpdate
    \/ \E h \in DOMAIN roots : DBCommitBegin(h, {})
    \/ \E ok \in BOOLEAN : DBCommitWrite(ok)
    \/ DBCommitReplay

SpecShare == Init /\ [][NextShare]_vars

\* ------------------------------------------------------- TrieDB's readers
\* TrieDB.Node(owner, path, h): never an error.
DBNode(h) ==
    /\ Quiet
    /\ \E r \in {DB_node(h)} :
           /\ last' = [op |-> "Node", hash |-> h, node |-> r.node, err |-> NoErr]
           /\ crashed' = r.panic
    /\ UNCHANGED <<tracer, trieVars, gen, pending, merged, dbVars, reader, roots, committed>>

\* TrieDB.nodeBlob(h), with nothing running beside it.
DBnodeBlob(h) ==
    /\ Quiet
    /\ \E r \in {DB_nodeBlob(h)} :
           last' = [op |-> "nodeBlob", hash |-> h, blob |-> r.blob, err |-> r.err]
    /\ UNCHANGED <<tracer, trieVars, gen, pending, merged, dbVars, reader, roots, committed, crashed>>

\* The hashes a reader may ask for: the zero hash, the cached and the stored.
Asked == {ZeroHash} \cup DOMAIN dirties \cup DOMAIN disk

\* A trie committed to the store, and readers of the TrieDB between the steps.
NextRead ==
    \/ \E k \in Keys, v \in Values : nOps < MaxOps /\ TrieUpdate(k, v)
    \/ TrieCommit(FALSE)
    \/ MergeNodes(ZeroHash)
    \/ DBUpdate
    \/ \E h \in DOMAIN roots : DBCommitBegin(h, {})
    \/ DBCommitWrite(TRUE)
    \/ DBCommitReplay
    \/ \E h \in Asked : DBNode(h)
    \/ \E h \in Asked : DBnodeBlob(h)

SpecRead == Init /\ [][NextRead]_vars

\* ------------------------------------------------ a store whose batch fails
\* A trie committed through a batch whose Put refuses one node, or none, and
\* whose Write may fail.
NextBatch ==
    \/ \E k \in Keys, v \in Values : nOps < MaxOps /\ TrieUpdate(k, v)
    \/ TrieCommit(FALSE)
    \/ MergeNodes(ZeroHash)
    \/ DBUpdate
    \/ \E h \in DOMAIN roots, bad \in {{}} \cup {{x} : x \in Nodes} : DBCommitBegin(h, bad)
    \/ \E ok \in BOOLEAN : DBCommitWrite(ok)
    \/ DBCommitReplay

SpecBatch == Init /\ [][NextBatch]_vars

\* ------------------------------------------- Commit and readers, by lock
\* db.lock is held for writing while Commit is between Lock and Unlock, and
\* for reading while a reader is between RLock and RUnlock.
WriteLocked == commit.pc \in {"locked", "finallocked"}
ReadLocked == reader.pc = "rlocked"

\* db.lock.Lock() after a batch.Write that succeeded: it waits for the readers.
DBCommitLock ==
    /\ ~crashed /\ commit.pc \in {"replay", "finalreplay"} /\ ~ReadLocked
    /\ commit' = [commit EXCEPT !.pc = IF @ = "replay" THEN "locked" ELSE "finallocked",
                                !.at = 0]
    /\ UNCHANGED <<tracer, trieVars, last, gen, pending, merged, dirties, oldest, newest, disk,
                   batch, reader, roots, committed, crashed>>

\* One cleaner.Put of batch.Replay(uncacher).
DBCommitPut ==
    /\ ~crashed /\ WriteLocked /\ commit.at < Len(batch.writes)
    /\ \E db \in {cleaner_Put(DB(dirties, oldest, newest), batch.writes[commit.at + 1].key)} :
           /\ dirties' = db.dirties
           /\ oldest' = db.oldest
           /\ newest' = db.newest
           /\ crashed' = db.panic
    /\ commit' = [commit EXCEPT !.at = @ + 1]
    /\ UNCHANGED <<tracer, trieVars, last, gen, pending, merged, disk, batch, reader, roots,
                   committed>>

\* The end of the replay: batch.Reset() and db.lock.Unlock(); then the walk
\* goes on to the next batch.Write, or Commit returns.
DBCommitUnlock ==
    /\ ~crashed /\ WriteLocked /\ commit.at = Len(batch.writes)
    /\ IF commit.pc = "locked"
       THEN \E w \in {walk(dirties, commit.stack, Batch_Reset(batch))} :
            /\ batch' = w.batch
            /\ commit' = [commit EXCEPT !.pc = w.pc, !.stack = w.stack,
                                        !.flushes = @ + 1, !.at = 0]
       ELSE /\ batch' = Batch_Reset(batch)
            /\ commit' = [commit EXCEPT !.pc = "idle", !.done = TRUE,
                                        !.flushes = @ + 1, !.at = 0]
    /\ committed' = IF commit.pc = "finallocked" THEN committed \cup {commit.root}
                    ELSE committed
    /\ UNCHANGED <<tracer, trieVars, last, gen, pending, merged, dirties, oldest, newest, disk,
                   reader, roots, crashed>>

\* A reader that goes to the dirty cache without the lock.
ReaderRLock_noLock(h) ==
    /\ ~crashed /\ commit.pc # "idle" /\ reader.pc = "idle"
    /\ h \in commit.present
    /\ reader' = [pc |-> "rlocked", hash |-> h, found |-> FALSE, from |-> "none"]
    /\ UNCHANGED <<tracer, trieVars, last, gen, pending, merged, dbVars, roots, committed, crashed>>

\* db.lock.RLock() of node(h), nodeBlob(h) or Nodes(): it waits for the
\* writer.
ReaderRLock(h) ==
    /\ ~crashed /\ commit.pc # "idle" /\ ~WriteLocked /\ reader.pc = "idle"
    /\ h \in commit.present
    /\ reader' = [pc |-> "rlocked", hash |-> h, found |-> FALSE, from |-> "none"]
    /\ UNCHANGED <<tracer, trieVars, last, gen, pending, merged, dbVars, roots, committed, crashed>>

\* node(h) and nodeBlob(h): dirty := db.dirties[hash], then db.lock.RUnlock().
ReaderRead ==
    /\ ~crashed /\ reader.pc = "rlocked"
    /\ reader' = IF reader.hash \in DOMAIN dirties
                 THEN [pc |-> "done", hash |-> ZeroHash,
                       found |-> Found(rlp(dirties[reader.hash])), from |-> "cache"]
                 ELSE [pc |-> "disk", hash |-> reader.hash, found |-> FALSE, from |-> "disk"]
    /\ UNCHANGED <<tracer, trieVars, last, gen, pending, merged, dbVars, roots, committed, crashed>>

\* Nodes(): the range over db.dirties, then db.lock.RUnlock().
ReaderNodes ==
    /\ ~crashed /\ reader.pc = "rlocked"
    /\ reader' = [pc |-> "done", hash |-> ZeroHash, found |-> Nodes # {}, from |-> "Nodes"]
    /\ UNCHANGED <<tracer, trieVars, last, gen, pending, merged, dbVars, roots, committed, crashed>>

\* One TrieDB.Commit, its replay one cleaner.Put at a time, and a reader.
NextLock ==
    \/ \E k \in Keys, v \in Values : nOps < MaxOps /\ TrieUpdate(k, v)
    \/ TrieCommit(FALSE)
    \/ MergeNodes(ZeroHash)
    \/ DBUpdate
    \/ \E h \in DOMAIN roots : DBCommitBegin(h, {})
    \/ \E ok \in BOOLEAN : DBCommitWrite(ok)
    \/ DBCommitLock
    \/ DBCommitPut
    \/ DBCommitUnlock
    \/ \E h \in commit.present : ReaderRLock(h)
    \/ ReaderRead
    \/ ReaderNodes
    \/ ReaderDisk
    \/ ReaderReturn

SpecLock == Init /\ [][NextLock]_vars

\* ------------------------------------------- tries committed and re-opened
\* Keys of which one is the start of the two others.
ReopenKeys == {<<18>>, <<18, 52>>, <<18, 53>>}

\* Tries that are changed, committed into the TrieDB and opened again from
\* their root.
NextReopen ==
    \/ \E k \in ReopenKeys, v \in Values : nOps < MaxTrieOps /\ TrieUpdate(k, v)
    \/ \E k \in ReopenKeys : nOps < MaxTrieOps /\ TrieDelete(k)
    \/ TrieCommit(FALSE)
    \/ MergeNodes(ZeroHash)
    \/ DBUpdate
    \/ \E h \in DOMAIN roots : pending.st = "updated" /\ TrieNew(h)

SpecReopen == Init /\ [][NextReopen]_vars

\* ------------------------------------------- a store that loses nodes only
\* A trie of long values under one branch, committed to the store, opened
\* again and read while the store's owner deletes nodes.
NextLoss ==
    \/ \E k \in Keys : nOps < MaxOps /\ TrieUpdate(k, BigValue)
    \/ \E k \in Keys : TrieGet(k)
    \/ TrieCommit(FALSE)
    \/ \E h \in DOMAIN roots : TrieNew(h)
    \/ MergeNodes(ZeroHash)
    \/ DBUpdate
    \/ \E h \in DOMAIN roots : DBCommitBegin(h, {})
    \/ DBCommitWrite(TRUE)
    \/ DBCommitReplay
    \/ \E h \in DOMAIN disk : StoreDelete(h)

SpecLoss == Init /\ [][NextLoss]_vars

\* ------------------------------------------------------ the tracker alone
\* The paths and the blob given to the tracker.
TracerPaths == {<<>>, <<1>>, <<1, 2>>, <<1, 3>>}
TracerBlob == encode(shortNode(hexToCompact(<<2, 16>>), valueNode(BigValue), newFlag))

NotTracer ==
    <<trieVars, last, gen, pending, merged, dbVars, reader, roots, committed, crashed>>

TracerNew == tracer' = newTracer /\ UNCHANGED NotTracer
TracerOnRead(path, val) == tracer' = onRead(tracer, path, val) /\ UNCHANGED NotTracer
TracerOnInsert(path) == tracer' = onInsert(tracer, path) /\ UNCHANGED NotTracer
TracerOnDelete(path) == tracer' = onDelete(tracer, path) /\ UNCHANGED NotTracer
TracerReset == tracer' = reset(tracer) /\ UNCHANGED NotTracer

NextTracer ==
    \/ TracerNew
    \/ \E p \in TracerPaths : TracerOnRead(p, TracerBlob)
    \/ \E p \in TracerPaths : TracerOnInsert(p)
    \/ \E p \in TracerPaths : TracerOnDelete(p)
    \/ TracerReset

SpecTracer == Init /\ [][NextTracer]_vars

\* ------------------------------------------- a store with embedded nodes
\* The blob of an extension node whose child is an embedded leaf with a
\* value of n bytes: the leaf takes n + 3 bytes.
EmbedBlob(n) ==
    encode(shortNode(hexToCompact(<<2>>),
                     shortNode(hexToCompact(<<16>>), valueNode([v |-> 1, n |-> n]),
                               nodeFlag(Nil, FALSE)),
                     nodeFlag(Nil, FALSE)))

\* The value lengths: embedded leaves of 31, 32 and 33 bytes.
EmbedLens == {28, 29, 30}

\* A trie committed to the store and re-opened over a store whose owner puts
\* nodes with embedded children.
NextEmbed ==
    \/ \E k \in StoreKeys : nOps < MaxStoreOps /\ TrieUpdate(k, BigValue)
    \/ \E k \in StoreKeys : TrieGet(k)
    \/ TrieCommit(FALSE)
    \/ \E h \in DOMAIN roots : TrieNew(h)
    \/ MergeNodes(ZeroHash)
    \/ DBUpdate
    \/ \E h \in DOMAIN roots : DBCommitBegin(h, {})
    \/ DBCommitWrite(TRUE)
    \/ DBCommitReplay
    \/ \E h \in DOMAIN disk, n \in EmbedLens : StorePut(h, EmbedBlob(n))

SpecEmbed == Init /\ [][NextEmbed]_vars

\* ------------------------------------------------- Commit of any root
\* Tries with account leaves committed to the TrieDB, the TrieDB committed
\* with a root a Trie.Commit returned or with the zero hash.
NextZero ==
    \/ \E k \in StoreKeys, v \in Values \cup AccountValues :
          nOps < MaxMergeOps /\ TrieUpdate(k, v)
    \/ TrieCommit(TRUE)
    \/ \E owner \in {ZeroHash, StorageOwner} : MergeNodes(owner)
    \/ TrieNewEmpty
    \/ DBUpdate
    \/ \E h \in DOMAIN roots \cup {ZeroHash} : DBCommitBegin(h, {})
    \/ DBCommitWrite(TRUE)
    \/ DBCommitReplay

SpecZero == Init /\ [][NextZero]_vars

\* ------------------------------------------------------------------ claims
\* The lookup of key k in the trie in use.
Lookup(rt, k) == tryGet(rt, keybytesToHex(k), 0)

\* A node without its flags: short keys, branch slots and values only.
RECURSIVE Strip(_)
Strip(n) ==
    CASE n.t = "short" -> [t |-> "short", Key |-> n.Key, Val |-> Strip(n.Val)]
      [] n.t = "full"  -> [t |-> "full", Children |-> [i \in 0..16 |-> Strip(n.Children[i])]]
      [] OTHER         -> n

\* The longest common prefix of a non-empty set of nibble strings.
RECURSIVE CommonPrefix(_)
CommonPrefix(S) ==
    LET s == CHOOSE x \in S : TRUE
    IN  IF \E x \in S : Len(x) = 0 THEN <<>>
        ELSE IF \E x \in S : x[1] # s[1] THEN <<>>
        ELSE <<s[1]>> \o CommonPrefix({Tail(x) : x \in S})

\* The Patricia trie of a set of <<nibble string, value>> pairs, by its
\* definition: a value where the string is spent, a short node over the common
\* prefix, a branch where the strings part; every node new (no cached hash).
RECURSIVE Canon(_)
Canon(S) ==
    IF S = {} THEN Nil
    ELSE IF \E e \in S : Len(e[1]) = 0
    THEN valueNode((CHOOSE e \in S : Len(e[1]) = 0)[2])
    ELSE LET p == CommonPrefix({e[1] : e \in S})
         IN  IF Len(p) > 0
             THEN shortNode(p, Canon({<<Drop(e[1], Len(p)), e[2]>> : e \in S}), newFlag)
             ELSE fullNode([i \in 0..16 |->
                               Canon({<<Tail(e[1]), e[2]>> : e \in {x \in S : x[1][1] = i}})],
                           newFlag)

\* The pairs a mapping holds.
Pairs(m) == {<<keybytesToHex(k), m[k]>> : k \in {x \in DOMAIN m : m[x] # NilValue}}

\* C1: after any sequence of Update and Delete calls from the empty trie,
\* TryGet(k) returns for every key k the value of the latest Update(k, v) with a
\* non-empty v, and the empty value when k was never updated or was last
\* deleted or updated with the empty value, without error; and Update(k, empty)
\* produces the root Delete(k) produces.
C1_GetReturnsLatest ==
    trie = "open" =>
        \A k \in TrieKeys :
            /\ Lookup(root, k).value = model[k]
            /\ Lookup(root, k).err = NoErr
            /\ tryUpdate(root, k, NilValue) = Trie_delete(root, <<>>, keybytesToHex(k))
            /\ \A j \in TrieKeys :
                  Lookup(tryUpdate(root, k, NilValue).node, j).value
                    = [model EXCEPT ![k] = NilValue][j]

C1_Witness ==
    /\ trie = "open" /\ last.op = "delete" /\ nOps >= 3
    /\ model[<<18>>] = BigValue
    /\ model[<<18, 52>>] = NilValue
    /\ model[<<19>>] = SmallValue

\* C2: a trie opened by New(root, db) on a root that went through Trie.Commit,
\* Merge, TrieDB.Update and a TrieDB.Commit(root) that returned nil is opened
\* without error and, as long as it is only read, TryGet answers for every
\* key, without error, the value the committed trie held, the empty value for
\* a key it never held.
C2_ReopenedTrieAnswers ==
    /\ (last.op = "new" /\ last.hash \in committed) =>
          (last.err = NoErr /\ trie = "open" /\ opened = last.hash)
    /\ (trie = "open" /\ opened \in committed) =>
          \A k \in TrieKeys :
              /\ Lookup(root, k).err = NoErr
              /\ Lookup(root, k).value = roots[opened][k]

\* A TryGet on a re-opened trie has resolved the branch below the root from
\* the store, the dirty cache being empty.
C2_Witness ==
    /\ trie = "open" /\ opened \in committed /\ last.op = "get" /\ Nodes = {}
    /\ roots[opened][<<18>>] = BigValue /\ roots[opened][<<18, 52>>] = SmallValue
    /\ root.t = "short" /\ root.Val.t = "full"

\* C3: a nodeBlob(h) call running concurrently with a TrieDB.Commit, for a
\* node hash h that was in the dirty cache or in the store when the Commit
\* started, finds the node, at whatever point of the Commit it reads the cache
\* and at whatever later point it reads the store.
C3_ReaderFindsNode ==
    (reader.pc = "done" /\ reader.from # "zero") => reader.found

\* The reader missed the cache and found in the store a node this Commit has
\* flushed, while the Commit has its last batch still to write.
C3_Witness ==
    /\ reader.pc = "done" /\ reader.from = "disk" /\ reader.found
    /\ commit.pc = "final" /\ commit.flushes = 1
    /\ DOMAIN disk \subseteq commit.reach

C5_Canonical ==
    trie = "open" =>
        /\ Strip(root) = Strip(Canon(Pairs(model)))
        /\ hashRoot(root)[1] = hashRoot(Canon(Pairs(model)))[1]
        /\ \A k \in {x \in TrieKeys : model[x] = NilValue}, v \in Values :
              LET u == tryUpdate(root, k, v)
                  d == Trie_delete(u.node, <<>>, keybytesToHex(k))
              IN  /\ u.err = NoErr /\ d.err = NoErr
                  /\ Strip(d.node) = Strip(root)
                  /\ hashRoot(d.node)[1] = hashRoot(root)[1]

\* A delete has merged a short node with the short node left below it.
C5_Witness ==
    /\ trie = "open" /\ last.op = "delete" /\ nOps >= 4
    /\ model[<<18, 52>>] # NilValue /\ model[<<18, 53>>] # NilValue
    /\ model[<<18>>] = NilValue /\ model[<<19>>] = NilValue
    /\ root.t = "short" /\ Len(root.Key) = 3

C9_NewTrie ==
    last.op = "new" =>
        IF last.hash \in {ZeroHash, emptyRoot}
        THEN ~last.consulted /\ last.err = NoErr /\ trie = "open" /\ root = Nil
        ELSE /\ last.consulted
             /\ (last.hash \notin DOMAIN dirties \cup DOMAIN disk) =>
                   /\ last.err.e = "MissingNodeError"
                   /\ last.err.NodeHash = last.hash /\ last.err.Path = <<>>
                   /\ trie = "none" /\ root = Nil
             /\ (last.hash \in DOMAIN dirties \cup DOMAIN disk) =>
                   (last.err = NoErr /\ trie = "open" /\ root.t \in {"short", "full"})

\* New was given a root that is not in a database that holds other nodes.
C9_Witness ==
    /\ last.op = "new" /\ last.consulted /\ last.err # NoErr
    /\ last.hash \notin DOMAIN dirties \cup DOMAIN disk
    /\ DOMAIN disk # {} /\ trie = "none"

\* C10: Hash() on a trie whose root is nil, fresh or emptied by deletes, returns
\* the empty-trie root and leaves the root nil.
C10_HashOfEmpty ==
    /\ (last.op = "hash" /\ last.wasNil) => (last.hash = emptyRoot /\ root = Nil)
    /\ (trie = "open" /\ root = Nil) =>
          (hashRoot(root)[1] = hashNode(emptyRoot) /\ hashRoot(root)[2] = Nil)

\* Hash() was called on a trie emptied by a Delete.
C10_Witness ==
    /\ last.op = "hash" /\ last.wasNil /\ nOps >= 2
    /\ root = Nil /\ model = EmptyModel

\* C11: an Update, Delete or TryGet that fails on a hash reference it cannot
\* resolve leaves the trie as it was: the root is the root of before the call,
\* every key is looked up with the result of before the call, and the mapping
\* the trie stands for is unchanged.
C11_FailedCallKeepsRoot ==
    [][(/\ last'.op \in {"update", "delete", "get"}
        /\ (last' # last \/ nOps' # nOps)
        /\ last'.err.e = "MissingNodeError")
       => /\ root' = root
          /\ trie' = trie
          /\ model' = model
          /\ \A k \in StoreKeys : Lookup(root', k) = Lookup(root, k)]_vars

\* An Update has failed below a branch whose other child is still read.
C11_Witness ==
    /\ trie = "open" /\ last.op = "update" /\ last.err.e = "MissingNodeError"
    /\ last.err.Path # <<>>
    /\ \E k \in StoreKeys : model[k] # NilValue /\ Lookup(root, k).err = NoErr
    /\ \E k \in StoreKeys : model[k] # NilValue /\ Lookup(root, k).err # NoErr

\* C12: a TrieDB.Commit that has returned nil has left every entry reachable
\* from its root in the store, and a Commit one of whose batch Puts failed
\* has returned an error.
C12_StoreFailureIsReported ==
    /\ (commit.done /\ commit.err = NoErr /\ ~crashed) =>
          \A h \in commit.reach : h \in DOMAIN disk
    /\ (commit.done /\ ~commit.retry /\ batch.bad \cap commit.reach # {}) =>
          commit.err # NoErr

\* C13: the cause carried by the MissingNodeError a trie call returns is the
\* error the store returned for the hash that could not be resolved.
C13_StoreErrorIsTheCause ==
    (last.op \in {"new", "get", "update", "delete"} /\ last.err.e = "MissingNodeError") =>
        /\ MemDB_Get(disk, last.err.NodeHash).err # NoErr
        /\ last.err.err = MemDB_Get(disk, last.err.NodeHash).err

\* C14: no trie call crashes, and a TryGet of any key on the trie in use
\* returns a value or an error, whatever blob the store holds under a
\* referenced hash.
C14_CorruptBlobIsAnError ==
    /\ ~crashed
    /\ trie = "open" =>
          \A k \in StoreKeys :
              Lookup(root, k).err.e \in {"nil", "MissingNodeError", "decode error"}

C16_MergeRejectsDuplicate ==
    [][(last'.op = "merge" /\ pending.st = "nodes" /\ pending'.st = "merged")
       => IF last'.owner \in DOMAIN merged
          THEN last'.err.e = "duplicate trie for owner" /\ merged' = merged
          ELSE /\ last'.err = NoErr
               /\ DOMAIN merged' = DOMAIN merged \cup {last'.owner}
               /\ merged'[last'.owner] = [pending.nodes EXCEPT !.owner = last'.owner]
               /\ \A o \in DOMAIN merged : merged'[o] = merged[o]]_vars

\* The NodeSet of a second trie was refused, its owner being merged already.
C16_Witness ==
    /\ last.op = "merge" /\ last.err.e = "duplicate trie for owner"
    /\ pending.st = "merged" /\ pending.nodes.order # <<>>
    /\ DOMAIN merged = {StorageOwner}
    /\ merged[last.owner].nodes # pending.nodes.nodes

\* The hashes met from h on along the given link, the zero hash ending the
\* walk; at most fuel of them.
RECURSIVE Chain(_, _, _, _)
Chain(d, h, next(_), fuel) ==
    IF h = ZeroHash \/ h \notin DOMAIN d \/ fuel = 0 THEN <<>>
    ELSE <<h>> \o Chain(d, next(d[h]), next, fuel - 1)

FlushForward == Chain(dirties, oldest, LAMBDA e : e.flushNext, Cardinality(Nodes) + 1)
FlushBackward == Chain(dirties, newest, LAMBDA e : e.flushPrev, Cardinality(Nodes) + 1)
Reverse(q) == [i \in 1..Len(q) |-> q[Len(q) + 1 - i]]

\* C17: in every state of the TrieDB, the flushNext links lead from oldest
\* through every cached hash but the sentinel, once each, to newest; the
\* flushPrev links lead from newest through the same hashes in the reverse
\* order to oldest; and oldest, newest and every link name a cached hash (the
\* zero hash of the sentinel where the list ends).
C17_FlushListIsAList ==
    /\ Len(FlushForward) = Cardinality(Nodes)
    /\ {FlushForward[i] : i \in 1..Len(FlushForward)} = Nodes
    /\ FlushBackward = Reverse(FlushForward)
    /\ oldest \in DOMAIN dirties /\ newest \in DOMAIN dirties
    /\ (Nodes = {}) = (oldest = ZeroHash)
    /\ (Nodes = {}) = (newest = ZeroHash)
    /\ Nodes # {} => (FlushForward[Len(FlushForward)] = newest /\ FlushBackward[1] = newest)
    /\ \A h \in Nodes :
          dirties[h].flushPrev \in DOMAIN dirties /\ dirties[h].flushNext \in DOMAIN dirties

\* The number of times h occurs in the sequence q.
Occurrences(q, h) == Cardinality({i \in 1..Len(q) : q[i] = h})

\* The references to h the entry e holds: the hash references of its node
\* and its count in the children map.
RefsIn(e, h) ==
    Occurrences(gatherChildren(e.node), h)
      + (IF h \in DOMAIN e.children THEN e.children[h] ELSE 0)

RECURSIVE RefsFrom(_, _, _)
RefsFrom(d, S, h) ==
    IF S = {} THEN 0
    ELSE LET x == CHOOSE y \in S : TRUE
         IN  RefsIn(d[x], h) + RefsFrom(d, S \ {x}, h)

\* C18: in every state of the TrieDB, the parents counter of every cached
\* hash is the number of references to it held by the cached entries, the
\* sentinel with its root pins included.
C18_ParentsCountReferences ==
    \A h \in Nodes : dirties[h].parents = RefsFrom(dirties, DOMAIN dirties, h)

\* The place of h in the sequence q, h being in q.
Pos(q, h) == CHOOSE i \in 1..Len(q) : q[i] = h

\* The hashes of the nodes of a NodeSet.
SetHashes(set) == {set.nodes[p].hash : p \in DOMAIN set.nodes}

\* The node at path q lies below the node at path p.
Below(p, q) == Len(p) < Len(q) /\ SubSeq(q, 1, Len(p)) = p

\* The flush-list keeps the order of two entries it had.
KeepsOrder(F, G) ==
    \A x \in Nodes \cap Nodes' : \A y \in Nodes \cap Nodes' :
        Pos(F, x) < Pos(F, y) => Pos(G, x) < Pos(G, y)

\* An entry that has just been cached comes after every entry cached before.
NewComeLast(G) ==
    \A x \in Nodes \cap Nodes' : \A y \in Nodes' \ Nodes : Pos(G, x) < Pos(G, y)

\* Of the entries this Update has cached, those of the storage sets come
\* before those of the set of owner zero alone.
StorageComeFirst(G) ==
    LET storage == UNION {SetHashes(merged[o]) : o \in DOMAIN merged \ {ZeroHash}}
    IN  \A x \in (Nodes' \ Nodes) \cap storage : \A y \in (Nodes' \ Nodes) \ storage :
            Pos(G, x) < Pos(G, y)

\* Of the entries this Update has cached, a node comes after the nodes of
\* its set that lie below it.
DescendantsComeFirst(G) ==
    \A o \in DOMAIN merged : \A p \in DOMAIN merged[o].nodes : \A q \in DOMAIN merged[o].nodes :
        LET x == merged[o].nodes[p].hash
            y == merged[o].nodes[q].hash
        IN  (Below(p, q) /\ x # y /\ {x, y} \subseteq Nodes' \ Nodes) => Pos(G, y) < Pos(G, x)

\* C19: in every step, the flush-list (the flushNext links from oldest) holds
\* every cached hash, two entries that stay cached keep their order, and an
\* entry cached by the step comes after every entry cached before it; and of
\* the entries one TrieDB.Update caches, those of the storage sets come before
\* those of the set of owner zero, and each node comes after the nodes of its
\* own set that lie below it.
C19_FlushListIsInsertionOrder ==
    [][LET F == FlushForward
           G == FlushForward'
       IN  /\ {F[i] : i \in 1..Len(F)} = Nodes
           /\ {G[i] : i \in 1..Len(G)} = Nodes'
           /\ KeepsOrder(F, G)
           /\ NewComeLast(G)
           /\ (last'.op = "dbUpdate" /\ pending.st = "merged" /\ pending'.st = "updated")
                  => (StorageComeFirst(G) /\ DescendantsComeFirst(G))]_vars

\* An Update of a storage set and of an account set has cached, after older
\* entries, the storage nodes and then an account branch above its leaves.
C19_Witness ==
    /\ last.op = "dbUpdate" /\ last.err = NoErr /\ ~crashed /\ pending.st = "updated"
    /\ Len(FlushForward) >= 3
    /\ \E h \in Nodes : /\ DOMAIN dirties[h].children # {}
                        /\ \A c \in DOMAIN dirties[h].children :
                               c \in Nodes /\ Pos(FlushForward, c) < Pos(FlushForward, h)
    /\ \E h \in Nodes : \E c \in Nodes :
           /\ Occurrences(gatherChildren(dirties[h].node), c) > 0
           /\ Pos(FlushForward, c) < Pos(FlushForward, h)

\* The children commit visits for the entry e, as a set.
Kids(e) == {forChilds(e)[i] : i \in 1..Len(forChilds(e))}

\* The i-th pair of the batch was put after its dirty children: a child that
\* is still cached stands before it in the batch, and a child that this
\* Commit found cached and that is cached no more went to the store with an
\* earlier batch.
PutAfterChildren(i) ==
    \A c \in Kids(dirties[batch.writes[i].key]) :
        /\ c \in Nodes => \E j \in 1..(i - 1) : batch.writes[j].key = c
        /\ (c \in commit.reach /\ c \notin Nodes) => c \in DOMAIN disk

\* C20: while a TrieDB.Commit runs, every pair in its batch was put after
\* every child of its node that is in the dirty cache, the child being in the
\* same batch before it or written with an earlier batch; and once the batch
\* is written, the store that has the node has those children too.
C20_ChildrenArePutFirst ==
    commit.pc \in {"write", "final", "replay", "finalreplay"} =>
        \A i \in 1..Len(batch.writes) :
            /\ batch.writes[i].key \in Nodes
            /\ PutAfterChildren(i)
            /\ commit.pc \in {"replay", "finalreplay"} =>
                   \A c \in Kids(dirties[batch.writes[i].key]) \cap commit.reach :
                       c \in DOMAIN disk

\* The last batch of a Commit holds a branch after a child put in the same
\* batch, another child of it having gone to the store with an earlier batch.
C20_Witness ==
    /\ commit.pc = "final" /\ commit.flushes > 0
    /\ \E i \in 1..Len(batch.writes) :
           /\ batch.writes[i].key \in Nodes
           /\ \E c \in Kids(dirties[batch.writes[i].key]) : c \in Nodes
           /\ \E c \in Kids(dirties[batch.writes[i].key]) \cap commit.reach : c \notin Nodes
           /\ PutAfterChildren(i)

\* The hashes a stored blob refers to: the hash references of the node it
\* decodes to.
StoredRefs(blob) ==
    LET q == gatherChildren(decodeNode(Nil, blob))
    IN  {q[i] : i \in 1..Len(q)}

\* C21: from the empty store and cache on, in every state during and after
\* Update and Commit calls (a Commit stopped by a failed Write included),
\* every hash a stored node refers to is a key of the store.
C21_StoreIsClosed ==
    \A h \in DOMAIN disk : StoredRefs(disk[h]) \subseteq DOMAIN disk

\* A Commit has written a node that refers to other stored nodes.
C21_Witness ==
    /\ commit.done /\ commit.err = NoErr
    /\ \E h \in DOMAIN disk : StoredRefs(disk[h]) # {}

\* C22: with one TrieDB.Commit and a reader running, every step that changes
\* the dirty cache or the flush-list is taken with the write lock held and no
\* read lock held; every read of the dirty cache is taken with the read lock
\* held and no write lock held; the write lock is taken only after a batch
\* was written, and while it is held the store and the traversal stack do
\* not change.
C22_LocksGuardTheCache ==
    [][/\ (commit.pc # "idle" /\ <<dirties, oldest, newest>>' # <<dirties, oldest, newest>>)
             => (WriteLocked /\ ~ReadLocked)
       /\ (reader.pc # reader'.pc /\ reader'.from \in {"cache", "disk", "Nodes"}
              /\ reader.pc \notin {"disk", "done"})
             => (ReadLocked /\ ~WriteLocked)
       /\ ~(WriteLocked /\ ReadLocked)
       /\ (~WriteLocked /\ WriteLocked')
             => /\ commit.pc \in {"replay", "finalreplay"}
                /\ \A i \in 1..Len(batch.writes) : batch.writes[i].key \in DOMAIN disk
       /\ WriteLocked => (disk' = disk /\ (WriteLocked' => commit'.stack = commit.stack
                                                          /\ batch' = batch))]_vars

\* A reader got its answer from the cache and the replay is half done: the
\* first node of the batch is uncached, the next one is still cached.
C22_Witness ==
    /\ WriteLocked /\ commit.at >= 1 /\ commit.at < Len(batch.writes)
    /\ batch.writes[commit.at].key \notin Nodes
    /\ batch.writes[commit.at + 1].key \in Nodes
    /\ reader.pc = "done" /\ reader.from = "cache"

\* C23: in every state, when no hash but the sentinel's is cached, oldest and
\* newest are the zero hash; when one is, oldest and newest are cached hashes
\* other than the sentinel's.
C23_EndpointsFollowTheCache ==
    /\ Nodes = {} => (oldest = ZeroHash /\ newest = ZeroHash)
    /\ Nodes # {} => (oldest \in Nodes /\ newest \in Nodes)

\* The nodes the next TrieDB.Update will hand to insert: <<hash, node>>.
InsertInputs ==
    UNION {{<<merged[o].nodes[p].hash, merged[o].nodes[p].node>> : p \in DOMAIN merged[o].nodes} :
           o \in DOMAIN merged}

\* What insert(h, node) does to the cache as it is.
InsertActs(h, node) ==
    LET db == DB(dirties, oldest, newest)
        r == DB_insert(db, h, node)
        kids == gatherChildren(node)
    IN  IF h \in DOMAIN dirties THEN r = db
        ELSE /\ ~r.panic
             /\ DOMAIN r.dirties = DOMAIN dirties \cup {h}
             /\ r.dirties[h].node = node /\ r.dirties[h].parents = 0
             /\ r.dirties[h].children = EmptyMap /\ r.dirties[h].flushNext = ZeroHash
             /\ r.newest = h
             /\ r.oldest = (IF oldest = ZeroHash THEN h ELSE oldest)
             /\ Chain(r.dirties, r.oldest, LAMBDA e : e.flushNext, Cardinality(Nodes) + 2)
                    = Append(FlushForward, h)
             /\ \A c \in DOMAIN dirties :
                    /\ r.dirties[c].parents = dirties[c].parents + Occurrences(kids, c)
                    /\ r.dirties[c].node = dirties[c].node
                    /\ r.dirties[c].children = dirties[c].children
                    /\ r.dirties[c].flushPrev = dirties[c].flushPrev
                    /\ r.dirties[c].flushNext # dirties[c].flushNext => (c = newest /\ c # ZeroHash)
             /\ DB_insert(r, h, node) = r

\* C24: for the cache of every reachable state and every node a NodeSet
\* hands to insert: when the hash is cached, insert changes nothing; when it
\* is not, insert adds that one entry with no parents, adds to the parents
\* counter of every cached hash the number of references the node holds to
\* it and to nothing else, puts the entry at the tail of the flush-list with
\* newest naming it, and a second insert of it changes nothing.
C24_InsertIsIdempotent ==
    \A in \in InsertInputs : InsertActs(in[1], in[2])

\* Update is about to insert a node that is cached and a node that is not and
\* that refers to a cached node.
C24_Witness ==
    /\ pending.st = "merged"
    /\ \E in \in InsertInputs : in[1] \in Nodes
    /\ \E in \in InsertInputs :
           /\ in[1] \notin DOMAIN dirties
           /\ \E c \in Nodes : Occurrences(gatherChildren(in[2]), c) > 0

\* The count the entry e keeps for the child c.
ChildCount(e, c) == IF c \in DOMAIN e.children THEN e.children[c] ELSE 0

\* What reference(child, parent) does to the cache as it is.
ReferenceActs(child, parent) ==
    LET db == DB(dirties, oldest, newest)
        r == DB_reference(db, child, parent)
        r2 == DB_reference(r, child, parent)
    IN  IF child \notin DOMAIN dirties THEN r = db
        ELSE IF parent # ZeroHash /\ child \in DOMAIN dirties[parent].children THEN r = db
        ELSE /\ ~r.panic
             /\ r.dirties[child].parents = dirties[child].parents + 1
             /\ ChildCount(r.dirties[parent], child) = ChildCount(dirties[parent], child) + 1
             /\ DOMAIN r.dirties = DOMAIN dirties /\ r.oldest = oldest /\ r.newest = newest
             /\ \A h \in DOMAIN dirties \ {child, parent} : r.dirties[h] = dirties[h]
             /\ \A c \in DOMAIN dirties[parent].children \ {child} :
                    ChildCount(r.dirties[parent], c) = ChildCount(dirties[parent], c)
             /\ IF parent # ZeroHash THEN r2 = r
                ELSE /\ r2.dirties[child].parents = dirties[child].parents + 2
                     /\ ChildCount(r2.dirties[parent], child)
                            = ChildCount(dirties[parent], child) + 2

\* C25: for the cache of every reachable state, every hash as child and every
\* cached hash as parent: reference changes nothing when the child is not
\* cached; under a parent other than the sentinel it adds one to the child's
\* parents and sets the parent's count for the child to 1 the first time and
\* changes nothing the second time, so that no such count exceeds 1; under
\* the sentinel every call adds one to both.
C25_ReferenceOncePerParent ==
    /\ \A parent \in DOMAIN dirties : \A child \in Nodes \cup DOMAIN roots \cup DOMAIN disk :
           ReferenceActs(child, parent)
    /\ \A parent \in Nodes : \A c \in DOMAIN dirties[parent].children :
           dirties[parent].children[c] = 1

\* Update has linked an account leaf to its cached storage root, and another
\* cached node has no link to that root yet.
C25_Witness ==
    \E parent \in Nodes : \E c \in DOMAIN dirties[parent].children :
        /\ c \in Nodes /\ dirties[c].parents >= 1
        /\ \E other \in Nodes \ {parent} : c \notin DOMAIN dirties[other].children

\* The bytes of the keys and values of a queue of writes.
RECURSIVE QueuedSize(_)
QueuedSize(writes) ==
    IF Len(writes) = 0 THEN 0
    ELSE BLen(writes[1].key) + ItemSize(writes[1].value) + QueuedSize(Tail(writes))

\* C26: the size of the batch is the sum of the lengths of its keys and
\* values; a batch that TrieDB.Commit writes and replays in the middle of the
\* traversal holds at least 102,400 bytes and held fewer before its last node
\* was queued; the batch written and replayed after the traversal holds fewer
\* than 102,400 bytes; and a Commit that returned nil has reset its batch and
\* has replayed at least that last batch.
C26_BatchFlushedAtIdealSize ==
    /\ batch.size = QueuedSize(batch.writes)
    /\ commit.pc \in {"write", "replay"} =>
           /\ batch.size >= 102400
           /\ Len(batch.writes) >= 1
           /\ QueuedSize(SubSeq(batch.writes, 1, Len(batch.writes) - 1)) < 102400
    /\ commit.pc \in {"final", "finalreplay"} =>
           (batch.size < 102400 /\ commit.stack = <<>>)
    /\ (commit.pc = "idle" /\ commit.done /\ commit.err = NoErr) =>
           (batch.writes = <<>> /\ batch.size = 0 /\ commit.flushes >= 1)

\* A batch of two nodes has reached the size in the middle of a traversal.
C26_Witness ==
    /\ commit.pc = "write" /\ Len(batch.writes) >= 2 /\ commit.stack # <<>>

\* The trie below n with every hash reference that resolves replaced by the
\* node it resolves to.
RECURSIVE Resolved(_)
Resolved(n) ==
    CASE n.t = "short" -> [n EXCEPT !.Val = Resolved(n.Val)]
      [] n.t = "full" -> [n EXCEPT !.Children = [i \in 0..16 |-> Resolved(n.Children[i])]]
      [] n.t = "hash" ->
         LET r == resolve(n, <<>>)
         IN  IF r.err = NoErr THEN Resolved(r.node) ELSE n
      [] OTHER -> n

\* No short node above a short node, no branch with fewer than two slots in
\* use.
RECURSIVE Minimal(_)
Minimal(n) ==
    CASE n.t = "short" -> n.Val.t \notin {"short", "nil"} /\ Minimal(n.Val)
      [] n.t = "full" ->
         /\ Cardinality({i \in 0..16 : n.Children[i] # Nil}) >= 2
         /\ \A i \in 0..16 : Minimal(n.Children[i])
      [] OTHER -> TRUE

\* The keys the trie in use holds.
Held == {k \in DOMAIN model : model[k] # NilValue}

\* C27: after any sequence of Update and Delete calls the resolved trie has
\* no short node whose child is a short node and no branch with fewer than
\* two slots in use; when it holds one key it is one short node whose key is
\* the nibbles of that key, terminator included, and whose child is the
\* value; when it holds none it is empty.
C27_MinimalForm ==
    trie = "open" =>
        /\ Minimal(Resolved(root))
        /\ Held = {} => root = Nil
        /\ \A k \in Held : Held = {k} =>
               /\ Resolved(root).t = "short"
               /\ Resolved(root).Key = keybytesToHex(k)
               /\ Resolved(root).Val = valueNode(model[k])

\* A Delete has left one key of a trie that had a branch under a short node.
C27_Witness ==
    /\ trie = "open" /\ last.op = "delete" /\ last.err = NoErr /\ nOps >= 4
    /\ Held = {<<18, 52>>}
    /\ root.t = "short" /\ Len(root.Key) = 5

\* What insert leaves of a key and the node below it: the node itself when
\* the key is spent, a short node otherwise.
Residual(key, val) == IF Len(key) = 0 THEN val ELSE shortNode(key, val, newFlag)

\* The split of the short node n by the nibble key of a new value.
SplitActs(n, key, value) ==
    LET m == Len(CommonPrefix({key, n.Key}))
        r == Trie_insert(n, <<>>, key, valueNode(value))
        branch == IF m > 0 THEN r.node.Val ELSE r.node
    IN  m < Len(n.Key) =>
            /\ r.dirty /\ r.err = NoErr
            /\ m > 0 => (r.node.t = "short" /\ r.node.Key = SubSeq(key, 1, m))
            /\ branch.t = "full"
            /\ {i \in 0..16 : branch.Children[i] # Nil} = {n.Key[m + 1], key[m + 1]}
            /\ n.Key[m + 1] # key[m + 1]
            /\ Strip(branch.Children[n.Key[m + 1]]) = Strip(Residual(SubSeq(n.Key, m + 2, Len(n.Key)), n.Val))
            /\ Strip(branch.Children[key[m + 1]])
                   = Strip(Residual(SubSeq(key, m + 2, Len(key)), valueNode(value)))

\* The short nodes of the trie below n.
RECURSIVE ShortNodes(_)
ShortNodes(n) ==
    CASE n.t = "short" -> {n} \cup ShortNodes(n.Val)
      [] n.t = "full" -> UNION {ShortNodes(n.Children[i]) : i \in 0..16}
      [] OTHER -> {}

\* The nibble keys that can arrive at a short node: the ends of the keys.
KeyEnds ==
    UNION {{SubSeq(keybytesToHex(k), i, Len(keybytesToHex(k))) : i \in 1..Len(keybytesToHex(k))} :
           k \in TrieKeys}

\* C28: for every short node of every reachable trie and every key that
\* shares with the short node's key fewer nibbles than that key has, insert
\* returns a branch with exactly two slots in use, those of the two nibbles
\* after the shared ones, holding what is left of the short node and what is
\* left of the new key over the value; a short node of the shared nibbles
\* stands above the branch when there are any, and nothing does when there
\* are none.
C28_SplitMakesABranch ==
    trie = "open" =>
        \A n \in ShortNodes(root) : \A key \in KeyEnds : \A v \in Values :
            SplitActs(n, key, v)

\* An Update has split a short node that shared two nibbles with the key, and
\* the trie holds a short node that shares none with some key.
C28_Witness ==
    /\ trie = "open" /\ last.op = "update" /\ last.err = NoErr
    /\ root.t = "short" /\ Len(root.Key) = 2 /\ root.Val.t = "full"
    /\ \E n \in ShortNodes(root) : \E key \in KeyEnds :
           Len(CommonPrefix({key, n.Key})) = 0 /\ Len(n.Key) > 0

\* The branches of the trie below n as the trie code meets them: a hash
\* reference is loaded, and the node loaded refers to its children by hash.
RECURSIVE LoadedFullNodes(_)
LoadedFullNodes(n) ==
    CASE n.t = "short" -> LoadedFullNodes(n.Val)
      [] n.t = "full" -> {n} \cup UNION {LoadedFullNodes(n.Children[i]) : i \in 0..16}
      [] n.t = "hash" ->
         LET r == resolve(n, <<>>)
         IN  IF r.err = NoErr THEN LoadedFullNodes(r.node) ELSE {}
      [] OTHER -> {}

\* The slots of the branch f after the key was deleted below it.
LeftOf(f, key) ==
    [f.Children EXCEPT ![key[1]] = Trie_delete(f.Children[key[1]], <<key[1]>>, Tail(key)).node]

\* The slots in use.
Used(children) == {i \in 0..16 : children[i] # Nil}

\* What delete makes of the branch f when the key is deleted below it.
ReduceActs(f, key) ==
    LET sub == Trie_delete(f.Children[key[1]], <<key[1]>>, Tail(key))
        r == Trie_delete(f, <<>>, key)
        left == LeftOf(f, key)
    IN  (sub.dirty /\ sub.err = NoErr /\ r.err = NoErr) =>
            /\ r.dirty
            /\ IF Cardinality(Used(left)) >= 2
               THEN /\ r.node.t = "full"
                    /\ \A i \in 0..16 : Strip(r.node.Children[i]) = Strip(left[i])
               ELSE \E pos \in Used(left) :
                        IF pos = 16
                        THEN Strip(r.node) = Strip(shortNode(<<16>>, left[16], newFlag))
                        ELSE LET c == resolve(left[pos], <<pos>>).node
                             IN  IF c.t = "short"
                                 THEN Strip(r.node)
                                          = Strip(shortNode(<<pos>> \o c.Key, c.Val, newFlag))
                                 ELSE Strip(r.node)
                                          = Strip(shortNode(<<pos>>, left[pos], newFlag))

\* The ends of the keys of the re-opened tries.
ReopenKeyEnds ==
    UNION {{SubSeq(keybytesToHex(k), i, Len(keybytesToHex(k))) : i \in 1..Len(keybytesToHex(k))} :
           k \in ReopenKeys}

\* C29: for every branch of every reachable trie and every key whose Delete
\* below the branch succeeds: with two or more slots left in use the branch
\* stays a branch with those slots; with slot 16 alone left it becomes the
\* short node of key [16] over the value; with another slot alone left the
\* child is loaded if it is a hash reference and, when it is a short node,
\* the branch becomes one short node of the slot nibble followed by the
\* child's key over the child's child, and otherwise a short node of the one
\* nibble over the child as the slot held it.
C29_BranchReduction ==
    trie = "open" =>
        \A f \in LoadedFullNodes(root) : \A key \in ReopenKeyEnds : ReduceActs(f, key)

\* A re-opened trie has a branch that a Delete leaves with one hash reference
\* to a short node, and a branch that a Delete leaves with one hash reference
\* to a branch.
C29_Witness ==
    /\ trie = "open" /\ opened # ZeroHash
    /\ \E f \in LoadedFullNodes(root) : \E key \in ReopenKeyEnds :
           /\ Trie_delete(f, <<>>, key).dirty /\ Trie_delete(f, <<>>, key).err = NoErr
           /\ \E pos \in 0..15 : /\ Used(LeftOf(f, key)) = {pos}
                                 /\ LeftOf(f, key)[pos].t = "hash"
                                 /\ resolve(LeftOf(f, key)[pos], <<pos>>).node.t = "short"
    /\ \E f \in LoadedFullNodes(root) : \E key \in ReopenKeyEnds :
           /\ Trie_delete(f, <<>>, key).dirty /\ Trie_delete(f, <<>>, key).err = NoErr
           /\ \E pos \in 0..15 : /\ Used(LeftOf(f, key)) = {pos}
                                 /\ LeftOf(f, key)[pos].t = "hash"
                                 /\ resolve(LeftOf(f, key)[pos], <<pos>>).node.t = "full"

\* The call returned the node it was given, unchanged and not dirty.
Untouched(r) ==
    r.err = NoErr => (/\ ~r.dirty
                      /\ r.node = root
                      /\ hashRoot(r.node)[1] = hashRoot(root)[1])

\* C30: in every reachable trie, the Update of a key with the value it holds,
\* the Delete of a key it does not hold and the Update of such a key with the
\* empty value return, when they succeed, the root they were given: no node
\* is made, none is marked dirty and the root hash is the same.
C30_NoChangeNoWrite ==
    trie = "open" =>
        /\ \A k \in Held : Untouched(tryUpdate(root, k, model[k]))
        /\ \A k \in TrieKeys \ Held :
               /\ Untouched(Trie_delete(root, <<>>, keybytesToHex(k)))
               /\ Untouched(tryUpdate(root, k, NilValue))

\* A re-opened trie holds a key below a hash reference and lacks keys that
\* part from its keys at the root, in a branch and below a hash reference.
C30_Witness ==
    /\ trie = "open" /\ opened # ZeroHash /\ Len(gatherChildren(root)) > 0
    /\ Held = {<<18>>, <<18, 52>>}
    /\ tryUpdate(root, <<18, 52>>, model[<<18, 52>>]).err = NoErr
    /\ Trie_delete(root, <<>>, keybytesToHex(<<18, 53>>)).err = NoErr

\* The short nodes and branches held in memory below and including n.
RECURSIVE Structural(_)
Structural(n) ==
    CASE n.t = "short" -> {n} \cup Structural(n.Val)
      [] n.t = "full"  -> {n} \cup UNION {Structural(n.Children[i]) : i \in 0..15}
      [] OTHER         -> {}

\* n with no hash cached anywhere in it.
RECURSIVE Unflag(_)
Unflag(n) ==
    CASE n.t = "short" -> [n EXCEPT !.Val = Unflag(n.Val), !.flags = nodeFlag(Nil, TRUE)]
      [] n.t = "full"  -> [n EXCEPT !.Children = [i \in 0..16 |-> Unflag(n.Children[i])],
                                    !.flags = nodeFlag(Nil, TRUE)]
      [] OTHER         -> n

\* The hash of n computed from its content alone.
Rehash(n) == hasher_hash(Unflag(n), TRUE)[1].h

\* The short nodes and branches a lookup of key passes in n, from nibble pos on.
RECURSIVE PathNodes(_, _, _)
PathNodes(n, key, pos) ==
    CASE n.t = "short" ->
         {n} \cup (IF Len(key) - pos < Len(n.Key)
                      \/ n.Key # SubSeq(key, pos + 1, pos + Len(n.Key))
                   THEN {} ELSE PathNodes(n.Val, key, pos + Len(n.Key)))
      [] n.t = "full" ->
         {n} \cup (IF pos < Len(key) THEN PathNodes(n.Children[key[pos + 1]], key, pos + 1)
                   ELSE {})
      [] OTHER -> {}

IsNew(n) == n.flags.dirty /\ n.flags.hash = Nil

\* The short nodes and branches of the trie below n: those held in memory and
\* those its hash references load, as decoded.
RECURSIVE Known(_)
Known(n) ==
    CASE n.t = "short" -> {n} \cup Known(n.Val)
      [] n.t = "full"  -> {n} \cup UNION {Known(n.Children[i]) : i \in 0..15}
      [] n.t = "hash"  ->
         LET r == resolve(n, <<>>)
         IN  IF r.err = NoErr THEN Known(r.node) ELSE {}
      [] OTHER         -> {}

\* Every cached hash in the trie below n is the hash of the node's content.
HashesHold(n) == \A x \in Structural(n) : x.flags.hash # Nil => x.flags.hash = Rehash(x)

\* The result r of a mutation of key on the root: every node on the way to
\* the key and every node that was neither held nor loaded is new, and the
\* cached hashes left hold.
MarksThePath(r, key) ==
    (r.err = NoErr /\ r.dirty) =>
        /\ \A n \in PathNodes(r.node, key, 0) : IsNew(n)
        /\ \A n \in Structural(r.node) \ Known(root) : IsNew(n)
        /\ HashesHold(r.node)

\* C31: in every reachable trie, a short node or branch that holds a cached
\* hash, its dirty bit false or not, holds the hash of its own content; and
\* after an Update or Delete that changed the trie every node on the way from
\* the root to the changed key, and every node the call made, has dirty set
\* and no cached hash.
C31_CachedHashIsOfTheContent ==
    trie = "open" =>
        /\ HashesHold(root)
        /\ \A k \in Keys :
               /\ \A v \in Values \cup {NilValue} :
                      MarksThePath(tryUpdate(root, k, v), keybytesToHex(k))
               /\ MarksThePath(Trie_delete(root, <<>>, keybytesToHex(k)), keybytesToHex(k))

\* The nodes of n that hold a cached hash and are clean.
CleanHashed(n) == {x \in Structural(n) : x.flags.hash # Nil /\ ~x.flags.dirty}

\* A trie loaded from the TrieDB has a leaf a TryGet loaded below its root,
\* both clean under their hashes; an Update of another key makes a new root
\* and keeps the leaf.
C31_Witness ==
    /\ trie = "open" /\ last.op = "get" /\ last.err = NoErr
    /\ Cardinality(CleanHashed(root)) >= 2
    /\ \E k \in Keys :
           LET r == tryUpdate(root, k, BigValue)
           IN  /\ r.err = NoErr /\ r.dirty
               /\ IsNew(r.node)
               /\ CleanHashed(r.node) # {}

\* Every hash reference a lookup of key meets below n, from nibble pos on,
\* loads.
RECURSIVE PathLoads(_, _, _)
PathLoads(n, key, pos) ==
    CASE n.t = "short" ->
         IF Len(key) - pos < Len(n.Key) \/ n.Key # SubSeq(key, pos + 1, pos + Len(n.Key))
         THEN TRUE ELSE PathLoads(n.Val, key, pos + Len(n.Key))
      [] n.t = "full" -> PathLoads(n.Children[key[pos + 1]], key, pos + 1)
      [] n.t = "hash" ->
         LET r == resolveAndTrack(n.h, SubSeq(key, 1, pos))
         IN  r.err = NoErr /\ PathLoads(r.node, key, pos)
      [] OTHER -> TRUE

\* n with the hash references a lookup of key meets replaced by the nodes
\* they load, and nothing else changed.
RECURSIVE ResolvePath(_, _, _)
ResolvePath(n, key, pos) ==
    CASE n.t = "short" ->
         IF Len(key) - pos < Len(n.Key) \/ n.Key # SubSeq(key, pos + 1, pos + Len(n.Key))
         THEN n ELSE [n EXCEPT !.Val = ResolvePath(n.Val, key, pos + Len(n.Key))]
      [] n.t = "full" ->
         [n EXCEPT !.Children[key[pos + 1]] = ResolvePath(n.Children[key[pos + 1]], key, pos + 1)]
      [] n.t = "hash" ->
         ResolvePath(resolveAndTrack(n.h, SubSeq(key, 1, pos)).node, key, pos)
      [] OTHER -> n

\* The paths of the dirty short nodes and branches held below n.
RECURSIVE DirtyPaths(_, _)
DirtyPaths(n, path) ==
    CASE n.t = "short" ->
         (IF n.flags.dirty THEN {path} ELSE {}) \cup DirtyPaths(n.Val, path \o n.Key)
      [] n.t = "full" ->
         (IF n.flags.dirty THEN {path} ELSE {})
             \cup UNION {DirtyPaths(n.Children[i], path \o <<i>>) : i \in 0..15}
      [] OTHER -> {}

\* The root TryGet(k) leaves: t.root = newroot when err == nil && didResolve.
RootAfterGet(k) ==
    LET r == Lookup(root, k)
    IN  IF r.err = NoErr /\ r.didResolve THEN r.newnode ELSE root

\* C32: in every reachable trie and for every key, TryGet fails exactly when
\* a hash reference on the key's path does not load, and then leaves the root
\* as it is; when it succeeds the root it leaves is the old root with the
\* hash references on the path replaced by the nodes they load and nothing
\* else changed: the same nodes are dirty, the root hash is the same and every
\* key has the value, or the error, it had.
C32_GetOnlyResolves ==
    trie = "open" =>
        \A k \in Keys :
            /\ (Lookup(root, k).err = NoErr) <=> PathLoads(root, keybytesToHex(k), 0)
            /\ ~PathLoads(root, keybytesToHex(k), 0) => RootAfterGet(k) = root
            /\ PathLoads(root, keybytesToHex(k), 0) =>
                  /\ RootAfterGet(k) = ResolvePath(root, keybytesToHex(k), 0)
                  /\ DirtyPaths(RootAfterGet(k), <<>>) = DirtyPaths(root, <<>>)
                  /\ hashRoot(RootAfterGet(k))[1] = hashRoot(root)[1]
                  /\ \A j \in Keys :
                         /\ Lookup(RootAfterGet(k), j).value = Lookup(root, j).value
                         /\ Lookup(RootAfterGet(k), j).err = Lookup(root, j).err

\* A TryGet on a re-opened trie has failed on a leaf the store lost, below a
\* branch that loads, and the root still holds the hash of the branch; the
\* TryGet of another key below that branch succeeds and loads it.
C32_Witness ==
    /\ trie = "open" /\ last.op = "get" /\ last.err # NoErr
    /\ root.t = "short" /\ root.Val.t = "hash"
    /\ resolve(root.Val, <<>>).err = NoErr
    /\ \E k \in Keys :
           /\ PathLoads(root, keybytesToHex(k), 0)
           /\ RootAfterGet(k) # root
           /\ RootAfterGet(k).Val.t = "full"

\* The short nodes and branches held below n, each with its path: a short
\* node's child is at the path extended by its key, a branch's child by its
\* slot.
RECURSIVE StructAt(_, _)
StructAt(n, path) ==
    CASE n.t = "short" -> {<<path, n>>} \cup StructAt(n.Val, path \o n.Key)
      [] n.t = "full"  ->
         {<<path, n>>} \cup UNION {StructAt(n.Children[i], path \o <<i>>) : i \in 0..15}
      [] OTHER         -> {}

\* The dirty short nodes and branches of the trie rt, with their paths.
DirtyAt(rt) == {e \in StructAt(rt, <<>>) : e[2].flags.dirty}

\* The serialization of n is 32 bytes or more: its parent holds its hash.
NotEmbedded(n) == hasher_hash(Unflag(n), FALSE)[1].t = "hash"

\* The nodes the TrieDB has below the reference n, each with its path and
\* its blob.
RECURSIVE StoredAt(_, _)
StoredAt(n, path) ==
    CASE n.t = "short" -> StoredAt(n.Val, path \o n.Key)
      [] n.t = "full"  -> UNION {StoredAt(n.Children[i], path \o <<i>>) : i \in 0..15}
      [] n.t = "hash"  ->
         LET b == DB_nodeBlob(n.h)
         IN  IF b.err # NoErr \/ IsErr(decodeNode(n.h, b.blob)) THEN {}
             ELSE {<<path, b.blob>>} \cup StoredAt(decodeNode(n.h, b.blob), path)
      [] OTHER         -> {}

\* The NodeSet has one update entry for every dirty node of rt that is not
\* embedded, holding the node under its hash, and none for a node that is not
\* dirty.
HoldsTheDirtyNodes(set, rt) ==
    /\ \A e \in DirtyAt(rt) :
           NotEmbedded(e[2]) =>
               /\ e[1] \in DOMAIN set.nodes
               /\ Occurrences(set.order, e[1]) = 1
               /\ set.nodes[e[1]].hash = Rehash(e[2])
               /\ Keccak(encode(set.nodes[e[1]].node)) = Rehash(e[2])
    /\ \A p \in DOMAIN set.nodes : \E e \in DirtyAt(rt) : e[1] = p
    /\ Len(set.order) = Cardinality(DOMAIN set.nodes)

\* Every update entry holds the blob stored at its path in the trie opened
\* from the hash from, and no blob when nothing was stored there.
HoldsThePreviousBlobs(set, from) ==
    \A p \in DOMAIN set.nodes :
        IF \E e \in StoredAt(hashNode(from), <<>>) : e[1] = p
        THEN \E e \in StoredAt(hashNode(from), <<>>) : e[1] = p /\ set.nodes[p].oldv = e[2]
        ELSE set.nodes[p].oldv = NoBlob

\* C33: the NodeSet Commit returns for any reachable trie has exactly one
\* update entry, under its path, for every short node or branch that is dirty
\* and serialized in 32 bytes or more, holding the node, and none for a node
\* that is not dirty; and after an Update or Delete on a trie opened from the
\* store every update entry carries the blob that was stored at its path,
\* empty when the path is new.
C33_NodeSetHoldsTheDirtyNodes ==
    trie = "open" =>
        /\ root # Nil => HoldsTheDirtyNodes(Trie_Commit(root, FALSE).nodes, root)
        /\ (opened \in DOMAIN disk \ DOMAIN dirties) =>
               \A k \in Keys : \A v \in Values \cup {NilValue} :
                   LET r == tryUpdate(root, k, v)
                   IN  (r.err = NoErr /\ r.dirty /\ r.node # Nil) =>
                           HoldsThePreviousBlobs(Trie_Commit(r.node, FALSE).nodes, opened)

\* The hash references of the node of the update entry at path p.
EntryRefs(set, p) ==
    {gatherChildren(set.nodes[p].node)[i] : i \in 1..Len(gatherChildren(set.nodes[p].node))}

\* updates.order lists the keys of updates.nodes, each once, a node after
\* the nodes below it and after the nodes of the set it refers to, and
\* TrieDB.Update's insertion loop finds every node it lists.
PostOrder(set) ==
    /\ \A p \in DOMAIN set.nodes : Occurrences(set.order, p) = 1
    /\ {set.order[i] : i \in 1..Len(set.order)} = DOMAIN set.nodes
    /\ \A i \in 1..Len(set.order) : \A j \in 1..Len(set.order) :
           Below(set.order[j], set.order[i]) => i < j
    /\ \A j \in 1..Len(set.order) :
           \A h \in EntryRefs(set, set.order[j]) \cap SetHashes(set) :
               \E i \in 1..(j - 1) : set.nodes[set.order[i]].hash = h
    /\ insertNodes(DB(dirties, oldest, newest), set, 1).err = NoErr

\* C34: the NodeSet Commit returns for any reachable trie, and the one a
\* Commit has returned, list in updates.order each updated path exactly once
\* and no other, every node after all the nodes of the set below it, so that
\* TrieDB.Update inserts no node before a node of the set it refers to and
\* reports no missing node.
C34_OrderIsPostOrder ==
    /\ (trie = "open" /\ root # Nil) =>
           \A collectLeaf \in BOOLEAN : PostOrder(Trie_Commit(root, collectLeaf).nodes)
    /\ pending.st = "nodes" => PostOrder(pending.nodes)
    /\ \A owner \in DOMAIN merged : PostOrder(merged[owner])
    /\ (last.op = "dbUpdate") => last.err # [e |-> "missing node"]

\* A Commit has returned a NodeSet of a root, a branch two nibbles below it
\* and a leaf below the branch, for a trie that was opened from the TrieDB
\* and changed.
C34_Witness ==
    /\ pending.st = "nodes" /\ Len(pending.nodes.order) >= 3
    /\ \E i \in 1..Len(pending.nodes.order) : \E j \in 1..Len(pending.nodes.order) :
           /\ pending.nodes.order[j] = <<>>
           /\ Len(pending.nodes.order[i]) >= 2
           /\ i < j
    /\ \E h \in DOMAIN roots : h # pending.root /\ h \in DOMAIN dirties

\* The paths of the nodes of the trie below n, held or stored.
NodePaths(n) ==
    {e[1] : e \in StructAt(n, <<>>)} \cup {e[1] : e \in StoredAt(n, <<>>)}

\* The NodeSet has a delete entry, with the stored blob, for every path that
\* held a stored node in the trie opened from the hash from and holds no node
\* in the trie rt.
HoldsTheDeletes(set, from, rt) ==
    \A e \in StoredAt(hashNode(from), <<>>) :
        e[1] \notin NodePaths(rt) =>
            /\ e[1] \in DOMAIN set.deletes
            /\ set.deletes[e[1]] = e[2]

\* C35: in a trie opened from the store the tracker holds, under its path,
\* the blob of every node the trie has loaded, the root's first; and the
\* NodeSet of a Commit that follows a Delete on such a trie has a delete
\* entry, with the stored blob, for every path whose stored node is gone from
\* the trie, and the stored blob in every update entry of a path that was
\* stored.
C35_TrackerKeepsTheOriginals ==
    (trie = "open" /\ opened \in DOMAIN disk \ DOMAIN dirties) =>
        /\ getOldv(TrieCapture, <<>>) = disk[opened]
        /\ \A k \in Keys :
               LET r == Trie_delete(root, <<>>, keybytesToHex(k))
               IN  (r.err = NoErr /\ r.dirty /\ r.node # Nil) =>
                       /\ HoldsTheDeletes(Trie_Commit(r.node, FALSE).nodes, opened, r.node)
                       /\ HoldsThePreviousBlobs(Trie_Commit(r.node, FALSE).nodes, opened)

\* The dirty short nodes of the trie rt that hold a value, with their paths.
DirtyLeaves(rt) == {e \in DirtyAt(rt) : e[2].t = "short" /\ e[2].Val.t = "value"}

\* The dirty short nodes of rt that hold a value and have a hash: the ones
\* serialized in 32 bytes or more, and the root.
HashedLeaves(rt) == {e \in DirtyLeaves(rt) : NotEmbedded(e[2]) \/ e[1] = <<>>}

\* The leaf record of the short node of e.
LeafOf(e) == [blob |-> e[2].Val.b, parent |-> Rehash(e[2])]

\* The leaves are the records of the nodes in from, one for each.
LeavesAre(leaves, from) ==
    /\ Len(leaves) = Cardinality(from)
    /\ \A e \in from :
           Occurrences(leaves, LeafOf(e)) = Cardinality({f \in from : LeafOf(f) = LeafOf(e)})

\* C36 as stated: a Commit with leaf collection gives one leaf record, of
\* the value and the node's own hash, for every dirty short node that holds
\* a value, and a Commit without it gives no leaves.
C36_LeafForEveryDirtyLeaf ==
    (trie = "open" /\ root # Nil) =>
        /\ LeavesAre(Trie_Commit(root, TRUE).nodes.leaves, DirtyLeaves(root))
        /\ Trie_Commit(root, FALSE).nodes.leaves = <<>>

\* C36: a Commit with leaf collection gives one leaf record, of the value
\* and the node's own hash, for every dirty short node that holds a value and
\* has a hash (it is serialized in 32 bytes or more, or it is the root), and
\* none for a short node embedded in its parent; a Commit without leaf
\* collection gives no leaves.
C36_LeafForEveryHashedDirtyLeaf ==
    (trie = "open" /\ root # Nil) =>
        /\ LeavesAre(Trie_Commit(root, TRUE).nodes.leaves, HashedLeaves(root))
        /\ Trie_Commit(root, FALSE).nodes.leaves = <<>>

\* The trie holds a dirty leaf with a hash and a dirty leaf embedded in its
\* parent, and a Commit with leaf collection gives a leaf record.
C36_Witness ==
    /\ trie = "open" /\ root # Nil
    /\ HashedLeaves(root) # {}
    /\ DirtyLeaves(root) \ HashedLeaves(root) # {}
    /\ Len(Trie_Commit(root, TRUE).nodes.leaves) >= 1

\* C37: on a tracker made by newTracer, onInsert of a path in the delete
\* set takes the path out of the delete set and leaves the insert set as it
\* was, and otherwise adds the path to the insert set; onDelete of a path in
\* the insert set takes it out of the insert set and leaves the delete set as
\* it was, and otherwise adds it to the delete set; after any calls no path
\* is in both sets; and reset leaves the insert set, the delete set and the
\* blobs read all empty.
C37_InsertAndDeleteCancel ==
    tracer # Nil =>
        /\ tracer.insert \cap tracer.delete = {}
        /\ \A p \in TracerPaths :
               /\ p \in tracer.delete =>
                      /\ onInsert(tracer, p).delete = tracer.delete \ {p}
                      /\ onInsert(tracer, p).insert = tracer.insert
                      /\ p \notin onInsert(tracer, p).insert
               /\ p \notin tracer.delete =>
                      /\ onInsert(tracer, p).insert = tracer.insert \cup {p}
                      /\ onInsert(tracer, p).delete = tracer.delete
               /\ p \in tracer.insert =>
                      /\ onDelete(tracer, p).insert = tracer.insert \ {p}
                      /\ onDelete(tracer, p).delete = tracer.delete
                      /\ p \notin onDelete(tracer, p).delete
               /\ p \notin tracer.insert =>
                      /\ onDelete(tracer, p).delete = tracer.delete \cup {p}
                      /\ onDelete(tracer, p).insert = tracer.insert
               /\ onInsert(tracer, p).origin = tracer.origin
               /\ onDelete(tracer, p).origin = tracer.origin
        /\ reset(tracer).insert = {}
        /\ reset(tracer).delete = {}
        /\ DOMAIN reset(tracer).origin = {}

\* The tracker holds a path to insert, a path to delete and a blob read.
C37_Witness ==
    /\ tracer # Nil
    /\ tracer.insert # {} /\ tracer.delete # {}
    /\ DOMAIN tracer.origin # {}
    /\ \E p \in tracer.delete : p \notin onInsert(tracer, p).insert

\* The list items inside the blobs of the store.
StoredLists ==
    UNION {{disk[h].list[i] : i \in {j \in 1..Len(disk[h].list) : IsList(disk[h].list[j])}} :
           h \in {g \in DOMAIN disk : IsList(disk[g])}}

\* C38: decodeRef decodes a list item of less than 32 bytes as the node it
\* holds, and gives a decode error for a list item of 32 bytes or more; a
\* stored node with an embedded child of 32 bytes or more is not decoded.
C38_EmbeddedUnder32Bytes ==
    /\ \A it \in StoredLists :
           IF ItemSize(it) < 32 THEN decodeRef(it) = decodeNode(Nil, it)
           ELSE IsErr(decodeRef(it))
    /\ \A h \in DOMAIN disk :
           (IsList(disk[h]) /\ Len(disk[h].list) = 2 /\ IsList(disk[h].list[2])
               /\ ItemSize(disk[h].list[2]) >= 32) => IsErr(decodeNode(h, disk[h]))

WriteKeys(w) == {w[i].key : i \in 1..Len(w)}
LastWrite(w, k) ==
    w[CHOOSE i \in 1..Len(w) :
          w[i].key = k /\ \A j \in (i + 1)..Len(w) : w[j].key # k].value

\* The flush-list of the cache d, walked from oldest.
ChainOf(d, o) == Chain(d, o, LAMBDA e : e.flushNext, Cardinality(DOMAIN d) + 1)

\* The queue q is the start of the queue r.
IsPrefix(q, r) == Len(q) <= Len(r) /\ \A i \in 1..Len(q) : r[i] = q[i]

\* The step is a successful batch.Write of TrieDB.Commit.
IsWrite ==
    commit.pc \in {"write", "final"} /\ commit'.pc \in {"replay", "finalreplay"}
\* The step is batch.Replay(uncacher) and batch.Reset() of TrieDB.Commit.
IsReplay ==
    commit.pc \in {"replay", "finalreplay"} /\ commit'.flushes = commit.flushes + 1
\* The step is the start of a TrieDB.Commit, which makes a new batch.
IsBegin == commit.pc = "idle" /\ commit'.pc # "idle"

\* C40: a successful Write leaves in the store, for every queued key, the
\* value queued last for it, leaves the other keys of the store alone and
\* keeps the queue and the cache; the Replay that follows removes from the
\* dirty cache the queued hashes and no other, skipping a hash that is not
\* cached any more (a second Replay of the queue does nothing), without a
\* panic, leaves the node, the parents counter and
\* the children map of every other entry as they were and the remaining
\* flush-list entries in their order, and does not touch the store; the Reset
\* after it leaves the queue empty and the size 0, so that the next queue has
\* none of the replayed hashes; and no other step shortens the queue.
C40_WriteReplayReset ==
    [][/\ IsWrite =>
              /\ batch' = batch
              /\ DOMAIN disk' = DOMAIN disk \cup WriteKeys(batch.writes)
              /\ \A k \in DOMAIN disk' :
                     disk'[k] = IF k \in WriteKeys(batch.writes)
                                THEN LastWrite(batch.writes, k) ELSE disk[k]
              /\ UNCHANGED <<dirties, oldest, newest>>
       /\ IsReplay =>
              /\ ~crashed'
              /\ DOMAIN dirties' = DOMAIN dirties \ WriteKeys(batch.writes)
              /\ \A h \in DOMAIN dirties' :
                     /\ dirties'[h].node = dirties[h].node
                     /\ dirties'[h].parents = dirties[h].parents
                     /\ dirties'[h].children = dirties[h].children
              /\ ChainOf(dirties', oldest') =
                     SelectSeq(ChainOf(dirties, oldest),
                               LAMBDA h : h \notin WriteKeys(batch.writes))
              /\ Batch_Replay(DB(dirties', oldest', newest'), batch.writes) =
                     DB(dirties', oldest', newest')
              /\ disk' = disk
              /\ WriteKeys(batch'.writes) \cap WriteKeys(batch.writes) = {}
              /\ commit.pc = "finalreplay" => (batch'.writes = <<>> /\ batch'.size = 0)
              /\ batch'.size = 0 <=> batch'.writes = <<>>
       /\ (~IsReplay /\ ~IsBegin) =>
              /\ IsPrefix(batch.writes, batch'.writes)
              /\ batch'.size >= batch.size
      ]_vars

\* A Commit has written and replayed a batch of two hashes or more and goes
\* on with entries left in the dirty cache; the store holds what was written.
C40_Witness ==
    /\ commit.flushes >= 1 /\ commit.pc \in {"write", "final"}
    /\ Len(batch.writes) >= 1
    /\ Cardinality(DOMAIN disk) >= 2
    /\ Nodes # {}
    /\ WriteKeys(batch.writes) \cap DOMAIN disk = {}


====
